---- MODULE Spec2Model ----
(***************************************************************************)
(* A model of the rte_flow operations of the bnxt poll-mode driver         *)
(* (drivers/net/bnxt/bnxt_flow.c): validate, create, destroy and flush,    *)
(* with the descriptor pool, the per-VNIC filter and flow lists, the       *)
(* shared L2 filter reference counts and the firmware's filter tables.     *)
(***************************************************************************)
EXTENDS Integers, Sequences, FiniteSets, TLC

\* ------------------------------------------------------------------ bounds
\* Number of rte_flow objects that may be live at once (exploration cap).
MaxFlows == 3
\* Destination MAC addresses of the patterns: 1 is the port's own MAC, 2..MaxMac others.
MaxMac == 2
\* IPv4 destinations of the patterns: 1..MaxIp (an Ethernet-only pattern has none).
MaxIp == 1
\* Largest rte_flow_attr group id the callers pass.
MaxGroup == 1
\* Application threads that call the flow operations.
NumThreads == 2
\* Number of rte_flow calls explored in one run.
MaxCalls == 4
\* Number of rte_flow calls explored in one run of several threads.
MaxThreadCalls == 3
\* Number of calls in one run during which a firmware command fails.
MaxFaults == 1
\* Largest l2_ref_cnt explored (the counter is a uint32_t).
MaxRef == 3
\* L2 sharing runs: IPv4 destinations of the rules, and number of calls explored.
MaxShareIp == 2
MaxShareCalls == 5
\* Calls in one run of the flush specification.
MaxFlushCalls == 4
\* Calls in one run of the drop / count specification.
MaxDropCalls == 4
\* RSS runs: queues in one RSS action, and number of calls explored.
MaxRssQueues == 2
MaxRssCalls == 3
\* VF runs: largest id of a VF action, and number of calls explored.
MaxVf == 1
MaxVfCalls == 3
\* Calls in one run of the tunnel teardown specification.
MaxTunCalls == 4
\* Calls started in one run of the threads that wait for the flow lock.
MaxLockCalls == 3
\* Calls in one run of the group id specification.
MaxGroupCalls == 2
\* RSS table runs: queues in one RSS action (from none), and the entries of
\* vnic->rss_table (HW_HASH_INDEX_SIZE is 128 in the driver; 3 divides neither).
MaxTableQueues == 3
HW_HASH_INDEX_SIZE == 4
\* Field extractor runs: items of one pattern (before END), and the width in bits
\* of a mask field (a MAC address, an IP address, a port, a TCI, a VNI).
MaxItems == 2
MaskBits == 2

\* ------------------------------------------------------- device as configured
\* bp->rx_nr_rings: receive rings 0 .. rx_nr_rings-1.
rx_nr_rings == 4
\* bp->max_vnics: entries of bp->vnic_info.
max_vnics == 4
\* INVALID_VNIC_ID / INVALID_HW_RING_ID: the "no firmware id" sentinel of a VNIC.
INVALID_VNIC_ID == 65535
\* UINT64_MAX in fw_l2_filter_id, fw_em_filter_id, fw_ntuple_filter_id: not installed.
INVALID_FILTER_ID == 0
\* INVALID_HW_RING_ID, the empty entry of a VNIC's ring group table.
INVALID_HW_RING_ID == 65535
\* NULL for descriptor and flow pointers (ids start at 1).
NULL == 0
\* NULL for a VNIC pointer, and for the rxq pointer of the action compiler.
NullVnic == 0 - 1
NullQ == 0 - 1
\* dev_conf->rxmode.mq_mode & ETH_MQ_RX_RSS: the port is configured for RSS.
mq_mode_rss == TRUE
\* Rings whose group id is held by the default VNIC (vnic_info[0].fw_grp_ids[q] is
\* valid): ring 0 and the last ring were started with the port, the others are free.
DefaultRings == {0, rx_nr_rings - 1}
\* The port's MAC address (the l2_addr of the default VNIC's first filter) and the
\* all-zero MAC of a descriptor whose pattern matched no address.
PortMac == 1
ZeroMac == 0

Vnics == 0 .. (max_vnics - 1)
Queues == 0 .. (rx_nr_rings - 1)
Threads == 1 .. NumThreads
FlowIds == 1 .. MaxFlows
\* The descriptor pool (bp->free_filter_list at start-up, plus the default filter):
\* every live flow holds one descriptor, a compile holds two more, the port one.
NumFilters == MaxFlows + 3
FilterIds == 1 .. NumFilters
\* Capacity of the firmware's L2 and EM/ntuple filter tables.
HwCap == MaxFlows + 2
HwIds == 1 .. HwCap
\* Firmware id the firmware hands out for vnic_info[i].
FwVnicId(i) == i + 1
\* bp->grp_info[q].fw_grp_id: the firmware's id of queue q's ring group.
FwGrpId(q) == q + 1

Min(S) == CHOOSE x \in S : \A y \in S : x <= y
SeqToSet(q) == {q[i] : i \in 1 .. Len(q)}
Remove(q, e) == SelectSeq(q, LAMBDA x : x # e)

\* ------------------------------------------------------------------ inputs
\* A pattern: "eth" = [ETH dst=mac], "ip" = [ETH dst=mac, IPV4 dst=ip],
\* "tun" = [VXLAN vni] (no Ethernet item).
NoPat == [kind |-> "none", mac |-> ZeroMac, ip |-> 0]
\* rss->queue[] of a rule without an RSS action.
NoQueues == <<>>
Patterns ==
    [kind : {"eth"}, mac : 1 .. MaxMac, ip : {0}]
    \cup [kind : {"ip"}, mac : 1 .. MaxMac, ip : 1 .. MaxIp]
    \cup {[kind |-> "tun", mac |-> ZeroMac, ip |-> 0]}
\* The queues a QUEUE action may name: in range, not 0, not a ring of vnic_info[0].
UsableQueues == (1 .. rx_nr_rings - 1) \ DefaultRings
\* A rule: pattern, first non-void action, its queue index, attr->group, whether
\* another non-void action follows the first one, the queues of an RSS action and
\* the id of a VF action.  Queue rx_nr_rings is out of range, as queue 0 is.
QueueRules ==
    [pat : {p \in Patterns : p.kind # "tun"}, act : {"QUEUE"}, q : 1 .. rx_nr_rings,
     group : {0}, extra : {FALSE}, queues : {NoQueues}, vf : {0}]
GroupRules ==
    [pat : {p \in Patterns : p.kind = "eth" /\ p.mac = MaxMac}, act : {"QUEUE"},
     q : UsableQueues, group : 1 .. MaxGroup, extra : {FALSE}, queues : {NoQueues},
     vf : {0}]
ExtraRules ==
    [pat : {p \in Patterns : p.kind = "eth" /\ p.mac = MaxMac}, act : {"QUEUE"},
     q : {1}, group : {0}, extra : {TRUE}, queues : {NoQueues}, vf : {0}]
TunnelRules ==
    [pat : {p \in Patterns : p.kind = "tun"}, act : {"VF"}, q : {0},
     group : {0}, extra : BOOLEAN, queues : {NoQueues}, vf : {0}]
Rules == QueueRules \cup GroupRules \cup ExtraRules \cup TunnelRules
NoRule ==
    [pat |-> NoPat, act |-> "NONE", q |-> 0, group |-> 0, extra |-> FALSE,
     queues |-> NoQueues, vf |-> 0]
\* The firmware command that fails during one call ("none": every command succeeds).
FailPoints == {"none", "vnic_alloc", "vnic_cfg", "l2_alloc", "flt_alloc",
               "l2_free", "flt_free", "tun_query", "tun_info", "tun_set",
               "tun_free"}
\* The firmware commands each handler can issue for a rule.
QueueFails == {"none", "vnic_alloc", "vnic_cfg", "l2_alloc", "flt_alloc",
               "l2_free", "flt_free"}
TunnelFails == {"none", "tun_query", "tun_set", "tun_free"}
CreateFails(rule) == IF rule.act = "VF" THEN TunnelFails ELSE QueueFails
ValidateFails(rule) ==
    IF rule.act = "VF" THEN {"none"}
    ELSE {"none", "vnic_alloc", "vnic_cfg", "l2_alloc", "l2_free"}
FlushFails == {"none", "l2_free", "flt_free", "tun_query", "tun_info", "tun_free"}
\* What a read of rte_flow.next finds after rte_free(flow): the old pointer, or NULL.
UafReads == {"intact", "null"}

\* ------------------------------------------------------------------- state
VARIABLES
    filt,       \* descriptor id -> struct bnxt_filter_info
    freeF,      \* bp->free_filter_list
    vnic,       \* bp->vnic_info[]
    rxq,        \* bp->rx_queues[]: vnic (index) and rx_started
    flow,       \* flow id -> struct rte_flow (filter, vnic)
    flows,      \* allocated rte_flow objects
    hwL2,       \* firmware: installed L2 filters
    hwFlt,      \* firmware: installed EM / ntuple filters
    tun,        \* firmware: owner of the VXLAN tunnel redirect
    func,       \* what the port is: physical function, VF, or trusted VF
    calls,      \* rte_flow calls completed so far
    faults,     \* calls so far during which a firmware command was made to fail
    crashed,    \* the process dereferenced a NULL or dangling list pointer
    lock,       \* bp->flow_lock: 0 when free, else the holding thread
    pc,         \* per thread: the operation it is inside ("idle" outside)
    last,       \* the operation that completed last, and its outcome
    items,      \* the rte_flow_item pattern[] handed to the field extractor
    parsed,     \* what the field extractor made of it
    rss         \* the RSS case of the action compiler: its loops over vnic->rss_table

vars == <<filt, freeF, vnic, rxq, flow, flows, hwL2, hwFlt, tun, func, calls,
          faults, crashed, lock, pc, last, items, parsed, rss>>

\* A descriptor as bnxt_free_filter leaves it in the pool.
BlankFilter ==
    [filter_type |-> "L2", flags |-> "rx", pat |-> NoPat, l2_addr |-> PortMac,
     dst_id |-> 0, fw_l2_filter_id |-> INVALID_FILTER_ID,
     fw_flt_id |-> INVALID_FILTER_ID, l2_ref_cnt |-> 0,
     matching_l2_fltr_ptr |-> NULL, en_tun |-> FALSE]
BlankVnic ==
    [fw_vnic_id |-> INVALID_VNIC_ID, rx_queue_cnt |-> 0, start_grp_id |-> 0,
     end_grp_id |-> 0, fw_grp_ids |-> <<>>, filter |-> <<>>, flow_list |-> <<>>]
BlankFlow == [filter |-> NULL, vnic |-> NullVnic]

\* The driver's data as one record, threaded through the handlers.
Cur ==
    [filt |-> filt, freeF |-> freeF, vnic |-> vnic, rxq |-> rxq, flow |-> flow,
     flows |-> flows, hwL2 |-> hwL2, hwFlt |-> hwFlt,
     tun |-> tun, func |-> func, crashed |-> crashed]

\* The port after dev_start: the default VNIC holds the port's MAC filter
\* (descriptor 1, firmware L2 filter 1) and the started rings.
InitData(t) ==
    [filt |-> [i \in FilterIds |->
                 IF i = 1
                 THEN [BlankFilter EXCEPT !.fw_l2_filter_id = 1, !.l2_ref_cnt = 1,
                                          !.dst_id = FwVnicId(0)]
                 ELSE BlankFilter],
     freeF |-> FilterIds \ {1},
     vnic |-> [i \in Vnics |->
                 IF i = 0
                 THEN [BlankVnic EXCEPT !.fw_vnic_id = FwVnicId(0),
                                        !.rx_queue_cnt = Cardinality(DefaultRings),
                                        !.end_grp_id = rx_nr_rings - 1,
                                        !.filter = <<1>>]
                 ELSE BlankVnic],
     rxq |-> [q \in Queues |->
                [vnic |-> 0, rx_started |-> IF q \in DefaultRings THEN 1 ELSE 0]],
     flow |-> [i \in FlowIds |-> BlankFlow],
     flows |-> {},
     hwL2 |-> {[id |-> 1, mac |-> PortMac, dst |-> FwVnicId(0)]},
     hwFlt |-> {},
     tun |-> t,
     func |-> "pf",
     crashed |-> FALSE]

\* ------------------------------------------------------ descriptor pool
\* bnxt_get_unused_filter: a descriptor of the free list, or NULL.
bnxt_get_unused_filter(s) ==
    IF s.freeF = {}
    THEN [s |-> s, f |-> NULL]
    ELSE [s |-> [s EXCEPT !.freeF = @ \ {Min(s.freeF)}], f |-> Min(s.freeF)]

\* bnxt_free_filter: the descriptor goes back to the free list, cleared.
bnxt_free_filter(s, id) ==
    [s EXCEPT !.freeF = @ \cup {id}, !.filt[id] = BlankFilter]

\* ------------------------------------------------ hardware control channel
\* bnxt_hwrm_set_l2_filter: install an L2 filter for the descriptor's l2_addr.
bnxt_hwrm_set_l2_filter(s, dst_id, id, fail) ==
    LET free == HwIds \ {e.id : e \in s.hwL2}
    IN  IF fail = "l2_alloc" \/ free = {}
        THEN [s |-> s, rc |-> "EIO"]
        ELSE [s |-> [s EXCEPT !.hwL2 = @ \cup {[id |-> Min(free),
                                                 mac |-> s.filt[id].l2_addr,
                                                 dst |-> dst_id]},
                              !.filt[id].fw_l2_filter_id = Min(free)],
              rc |-> "OK"]

\* bnxt_hwrm_clear_l2_filter: drop one reference of the shared L2 filter the
\* descriptor uses (itself, or the one it points at) and uninstall at zero.
bnxt_hwrm_clear_l2_filter(s, id, fail) ==
    LET f == s.filt[id]
        l2 == IF f.matching_l2_fltr_ptr # NULL THEN f.matching_l2_fltr_ptr ELSE id
        cnt == IF s.filt[l2].l2_ref_cnt > 0 THEN s.filt[l2].l2_ref_cnt - 1 ELSE 0
        s1 == [s EXCEPT !.filt[l2].l2_ref_cnt = cnt]
    IN  IF f.fw_l2_filter_id = INVALID_FILTER_ID THEN [s |-> s, rc |-> "OK"]
        ELSE IF cnt > 0 THEN [s |-> s1, rc |-> "OK"]
        ELSE IF fail = "l2_free" THEN [s |-> s1, rc |-> "EIO"]
        ELSE [s |-> [s1 EXCEPT !.hwL2 = {e \in @ : e.id # f.fw_l2_filter_id},
                               !.filt[id].fw_l2_filter_id = INVALID_FILTER_ID],
              rc |-> "OK"]

\* bnxt_hwrm_set_em_filter / bnxt_hwrm_set_ntuple_filter: install the descriptor.
bnxt_hwrm_set_flt(s, dst_id, id, fail) ==
    LET free == HwIds \ {e.id : e \in s.hwFlt}
    IN  IF fail = "flt_alloc" \/ free = {}
        THEN [s |-> s, rc |-> "EIO"]
        ELSE [s |-> [s EXCEPT !.hwFlt = @ \cup {[id |-> Min(free),
                                                  kind |-> s.filt[id].filter_type,
                                                  pat |-> s.filt[id].pat,
                                                  dst |-> dst_id]},
                              !.filt[id].fw_flt_id = Min(free)],
              rc |-> "OK"]

\* bnxt_hwrm_clear_em_filter / bnxt_hwrm_clear_ntuple_filter.
bnxt_hwrm_clear_flt(s, id, fail) ==
    LET f == s.filt[id]
    IN  IF f.fw_flt_id = INVALID_FILTER_ID THEN [s |-> s, rc |-> "OK"]
        ELSE IF fail = "flt_free" THEN [s |-> s, rc |-> "EIO"]
        ELSE [s |-> [s EXCEPT !.hwFlt = {e \in @ : e.id # f.fw_flt_id},
                              !.filt[id].fw_flt_id = INVALID_FILTER_ID],
              rc |-> "OK"]

\* bnxt_hwrm_vnic_free (with bnxt_hwrm_vnic_ctx_free): the firmware context goes.
bnxt_hwrm_vnic_free(s, v) ==
    [s EXCEPT !.vnic[v].fw_vnic_id = INVALID_VNIC_ID]

\* bnxt_vnic_grp_alloc (a ring group table with no entry), bnxt_hwrm_vnic_alloc
\* and bnxt_hwrm_vnic_cfg, as bnxt_vnic_prep calls them.
bnxt_vnic_prep(s, v, fail) ==
    LET s0 == [s EXCEPT !.vnic[v].fw_grp_ids = <<>>]
        s1 == [s0 EXCEPT !.vnic[v].fw_vnic_id = FwVnicId(v)]
    IN  IF fail = "vnic_alloc" THEN [s |-> s0, rc |-> "EIO"]
        ELSE IF fail = "vnic_cfg" THEN [s |-> s1, rc |-> "EIO"]
        ELSE [s |-> s1, rc |-> "OK"]

\* ------------------------------------------------------------ field extractor
\* bnxt_filter_type_check: 1 (ntuple) unless the pattern is Ethernet-only.
bnxt_filter_type_check(pat) == IF pat.kind = "eth" THEN 0 ELSE 1

\* bnxt_validate_and_parse_flow_type: the descriptor's kind and match fields.
bnxt_validate_and_parse_flow_type(s, f, pat) ==
    [s EXCEPT !.filt[f].filter_type =
                  IF bnxt_filter_type_check(pat) = 1 THEN "NTUPLE" ELSE "EM",
              !.filt[f].pat = pat,
              !.filt[f].en_tun = FALSE]

\* valid_flags holds nothing but the L2 source/destination bits.
valid_flags_l2_only(pat) == pat.kind \in {"eth", "tun"}

\* ---------------------------------------------- field extractor, item by item
\* A mask field of MaskBits bits: 0 is all-zero, AllOnes is all-ones, every
\* other value is partially set.
Masks == 0 .. (2 ^ MaskBits - 1)
AllOnes == 2 ^ MaskBits - 1
\* RTE_BE16(0x0fff): the VLAN id bits of the TCI, all bits but the topmost.
VidMask == 2 ^ (MaskBits - 1) - 1

\* One rte_flow_item: its type, whether spec, mask and last are given, and what
\* the extractor reads of them: the masks on the destination and source field
\* (MAC addresses, IP addresses, ports), on the ethertype (ETH type, VLAN
\* inner_type), on the TCI, on the other header fields, on the VNI / TSI, whether
\* the spec has the values the extractor asks for (unicast MAC addresses, the
\* fixed VXLAN / NVGRE flag and reserved fields), and the num of an ANY item.
BlankItem(ty) ==
    [type |-> ty, spec |-> TRUE, mask |-> TRUE, last |-> FALSE, dst_mask |-> 0,
     src_mask |-> 0, type_mask |-> 0, tci_mask |-> VidMask, hdr_mask |-> 0,
     id_mask |-> AllOnes, spec_ok |-> TRUE, num |-> 1]

EthItems ==
    {[BlankItem("ETH") EXCEPT !.dst_mask = d, !.src_mask = s] : d \in Masks, s \in Masks}
    \cup {[BlankItem("ETH") EXCEPT !.dst_mask = AllOnes, !.type_mask = m] : m \in Masks}
    \cup {[BlankItem("ETH") EXCEPT !.dst_mask = AllOnes, !.spec_ok = FALSE]}
    \cup {[BlankItem("ETH") EXCEPT !.spec = sp, !.mask = mk] : sp \in BOOLEAN, mk \in BOOLEAN}
    \cup {[BlankItem("ETH") EXCEPT !.last = TRUE]}
VlanItems ==
    {[BlankItem("VLAN") EXCEPT !.tci_mask = m, !.type_mask = e] :
        m \in Masks, e \in {0, AllOnes}}
Ipv4Items ==
    {[BlankItem("IPV4") EXCEPT !.dst_mask = d, !.src_mask = s] :
        d \in Masks, s \in {0, AllOnes}}
    \cup {[BlankItem("IPV4") EXCEPT !.hdr_mask = AllOnes]}
Ipv6Items ==
    {[BlankItem("IPV6") EXCEPT !.dst_mask = d] : d \in Masks}
    \cup {[BlankItem("IPV6") EXCEPT !.hdr_mask = AllOnes]}
PortItems(ty) ==
    {[BlankItem(ty) EXCEPT !.dst_mask = d] : d \in Masks}
    \cup {[BlankItem(ty) EXCEPT !.src_mask = s] : s \in Masks}
    \cup {[BlankItem(ty) EXCEPT !.hdr_mask = AllOnes]}
TunnelItems(ty) ==
    {[BlankItem(ty) EXCEPT !.spec = sp, !.mask = mk] : sp \in BOOLEAN, mk \in BOOLEAN}
    \cup {[BlankItem(ty) EXCEPT !.id_mask = m] : m \in Masks}
    \cup {[BlankItem(ty) EXCEPT !.spec_ok = FALSE]}
AnyItems == {[BlankItem("ANY") EXCEPT !.num = n] : n \in {1, 4}}
Items ==
    EthItems \cup VlanItems \cup Ipv4Items \cup Ipv6Items \cup PortItems("TCP")
    \cup PortItems("UDP") \cup TunnelItems("VXLAN") \cup TunnelItems("NVGRE")
    \cup TunnelItems("GRE") \cup AnyItems
\* pattern[] up to its END item.
ItemPatterns == UNION {[1 .. n -> Items] : n \in 1 .. MaxItems}

\* The loop of bnxt_filter_type_check over pattern[k ..]: -1 stands for
\* -rte_errno.
RECURSIVE type_check_loop(_, _, _, _)
type_check_loop(its, k, use_ntuple, has_vlan) ==
    IF k > Len(its)
    THEN (IF has_vlan /\ use_ntuple = 1 THEN 0 - 1 ELSE use_ntuple)
    ELSE IF its[k].type \in {"ANY", "ETH"}
    THEN type_check_loop(its, k + 1, 0, has_vlan)
    ELSE IF its[k].type = "VLAN" THEN type_check_loop(its, k + 1, 0, TRUE)
    ELSE IF its[k].type \in {"IPV4", "IPV6", "TCP", "UDP"}
    THEN type_check_loop(its, k + 1, 1, has_vlan)
    ELSE type_check_loop(its, k + 1, use_ntuple, has_vlan)

\* bnxt_filter_type_check on the items of a pattern.
type_check_items(its) == type_check_loop(its, 1, 1, FALSE)

\* The descriptor fields and the locals (en, valid_flags, inner) the extractor
\* writes, before the first item; rc is what the function returns.
BlankParsed(use_ntuple) ==
    [rc |-> "OK", filter_type |-> IF use_ntuple = 1 THEN "NTUPLE" ELSE "EM",
     en |-> {}, valid_flags |-> {}, inner |-> FALSE, tunnel_type |-> "NONE",
     src_ipaddr_mask |-> 0, dst_ipaddr_mask |-> 0, src_port_mask |-> 0,
     dst_port_mask |-> 0]
\* No pattern has been handed to the extractor.
NotParsed == [BlankParsed(1) EXCEPT !.rc = "none"]

\* rte_flow_error_set(error, EINVAL, ...); return -rte_errno.
Reject(d) == [d EXCEPT !.rc = "EINVAL"]

\* case RTE_FLOW_ITEM_TYPE_ANY.
parse_any(d, it) == [d EXCEPT !.inner = it.num > 3]

\* A case ETH that takes any mask on the MAC addresses.
parse_eth_any_mask(d, it, use_ntuple) ==
    IF it.type_mask # 0 /\ it.type_mask # AllOnes THEN Reject(d)
    ELSE IF (it.dst_mask = AllOnes \/ it.src_mask = AllOnes) /\ ~it.spec_ok
    THEN Reject(d)
    ELSE [d EXCEPT
            !.en = @ \cup (IF it.dst_mask # 0 THEN {"DST_MACADDR"} ELSE {})
                     \cup (IF it.src_mask # 0 THEN {"SRC_MACADDR"} ELSE {})
                     \cup (IF it.type_mask # 0 THEN {"ETHERTYPE"} ELSE {}),
            !.valid_flags =
                @ \cup (IF it.dst_mask # 0
                        THEN {IF d.inner THEN "L2_INNER_DST" ELSE "L2_DST"} ELSE {})
                  \cup (IF it.src_mask # 0
                        THEN {IF d.inner THEN "L2_INNER_SRC" ELSE "L2_SRC"} ELSE {})]

\* case RTE_FLOW_ITEM_TYPE_ETH: each MAC mask is all-zero or all-ones, the
\* ethertype mask too, and a matched address is unicast.
parse_eth(d, it, use_ntuple) ==
    IF \/ (it.src_mask # 0 /\ it.src_mask # AllOnes)
       \/ (it.dst_mask # 0 /\ it.dst_mask # AllOnes)
    THEN Reject(d)
    ELSE IF it.type_mask # 0 /\ it.type_mask # AllOnes THEN Reject(d)
    ELSE IF it.dst_mask = AllOnes /\ ~it.spec_ok THEN Reject(d)
    ELSE IF it.src_mask = AllOnes /\ ~it.spec_ok THEN Reject(d)
    ELSE [d EXCEPT
            !.en = @ \cup (IF it.dst_mask = AllOnes THEN {"DST_MACADDR"} ELSE {})
                     \cup (IF it.src_mask = AllOnes THEN {"SRC_MACADDR"} ELSE {})
                     \cup (IF it.type_mask # 0 THEN {"ETHERTYPE"} ELSE {}),
            !.valid_flags =
                @ \cup (IF it.dst_mask = AllOnes
                        THEN {IF d.inner THEN "L2_INNER_DST" ELSE "L2_DST"} ELSE {})
                  \cup (IF it.src_mask = AllOnes
                        THEN {IF d.inner THEN "L2_INNER_SRC" ELSE "L2_SRC"} ELSE {})]

\* case RTE_FLOW_ITEM_TYPE_VLAN: no ethertype matched before, the TCI mask is
\* exactly the VLAN id bits, the inner ethertype mask is all-zero or all-ones.
parse_vlan(d, it) ==
    IF "ETHERTYPE" \in d.en THEN Reject(d)
    ELSE IF ~(it.tci_mask # 0 /\ it.tci_mask = VidMask) THEN Reject(d)
    ELSE IF it.type_mask # 0 /\ it.type_mask # AllOnes THEN Reject(d)
    ELSE [d EXCEPT !.en = @ \cup {"OVLAN_VID"}
                             \cup (IF it.type_mask # 0 THEN {"ETHERTYPE"} ELSE {})]

\* case RTE_FLOW_ITEM_TYPE_IPV4 and case RTE_FLOW_ITEM_TYPE_IPV6: only the
\* address fields may carry a mask, and they carry any mask.
parse_ip(d, it, use_ntuple) ==
    IF it.hdr_mask # 0 THEN Reject(d)
    ELSE [d EXCEPT
            !.en = @ \cup {"SRC_IPADDR", "DST_IPADDR"}
                     \cup (IF it.src_mask # 0 /\ use_ntuple = 1
                           THEN {"SRC_IPADDR_MASK"} ELSE {})
                     \cup (IF it.dst_mask # 0 /\ use_ntuple = 1
                           THEN {"DST_IPADDR_MASK"} ELSE {}),
            !.src_ipaddr_mask = IF it.src_mask # 0 THEN it.src_mask ELSE @,
            !.dst_ipaddr_mask = IF it.dst_mask # 0 THEN it.dst_mask ELSE @]

\* case RTE_FLOW_ITEM_TYPE_TCP and case RTE_FLOW_ITEM_TYPE_UDP: only the port
\* fields may carry a mask, and they carry any mask.
parse_port(d, it, use_ntuple) ==
    IF it.hdr_mask # 0 THEN Reject(d)
    ELSE [d EXCEPT
            !.en = @ \cup {"SRC_PORT", "DST_PORT"}
                     \cup (IF it.dst_mask # 0 /\ use_ntuple = 1
                           THEN {"DST_PORT_MASK"} ELSE {})
                     \cup (IF it.src_mask # 0 /\ use_ntuple = 1
                           THEN {"SRC_PORT_MASK"} ELSE {}),
            !.dst_port_mask = IF it.dst_mask # 0 THEN it.dst_mask ELSE @,
            !.src_port_mask = IF it.src_mask # 0 THEN it.src_mask ELSE @]

\* case RTE_FLOW_ITEM_TYPE_VXLAN and case RTE_FLOW_ITEM_TYPE_NVGRE.
parse_vxlan(d, it) ==
    IF it.spec # it.mask THEN Reject(d)
    ELSE IF ~it.spec /\ ~it.mask THEN [d EXCEPT !.tunnel_type = it.type]
    ELSE IF ~it.spec_ok THEN Reject(d)
    ELSE IF it.id_mask # AllOnes THEN Reject(d)
    ELSE [d EXCEPT !.tunnel_type = it.type]

\* case RTE_FLOW_ITEM_TYPE_GRE.
parse_gre(d, it) ==
    IF it.spec # it.mask THEN Reject(d)
    ELSE IF ~it.spec /\ ~it.mask THEN [d EXCEPT !.tunnel_type = "IPGRE"]
    ELSE d

\* The switch of bnxt_validate_and_parse_flow_type on one item.
parse_item(d, it, use_ntuple) ==
    IF it.type = "ANY" THEN parse_any(d, it)
    ELSE IF it.type = "ETH" THEN parse_eth(d, it, use_ntuple)
    ELSE IF it.type = "VLAN" THEN parse_vlan(d, it)
    ELSE IF it.type \in {"IPV4", "IPV6"} THEN parse_ip(d, it, use_ntuple)
    ELSE IF it.type \in {"TCP", "UDP"} THEN parse_port(d, it, use_ntuple)
    ELSE IF it.type \in {"VXLAN", "NVGRE"} THEN parse_vxlan(d, it)
    ELSE IF it.type = "GRE" THEN parse_gre(d, it)
    ELSE d

\* The while loop of bnxt_validate_and_parse_flow_type over pattern[k ..]: an
\* item with a last, or without a spec or a mask, ends it with an error.
RECURSIVE parse_items(_, _, _, _)
parse_next(d, its, k, use_ntuple) ==
    IF d.rc # "OK" THEN d ELSE parse_items(d, its, k + 1, use_ntuple)

parse_items(d, its, k, use_ntuple) ==
    IF k > Len(its) THEN d
    ELSE IF its[k].last THEN Reject(d)
    ELSE IF ~its[k].spec \/ ~its[k].mask THEN Reject(d)
    ELSE parse_next(parse_item(d, its[k], use_ntuple), its, k, use_ntuple)

\* bnxt_validate_and_parse_flow_type on the items of a pattern.
parse_flow_type_typed(its, use_ntuple) ==
    IF use_ntuple < 0 THEN Reject(BlankParsed(1))
    ELSE parse_items(BlankParsed(use_ntuple), its, 1, use_ntuple)

parse_flow_type_items(its) == parse_flow_type_typed(its, type_check_items(its))

\* ------------------------------------------------------------ L2 filter table
\* The flows of every in-use VNIC, scanned from vnic_info[max_vnics-1] down to 0.
RECURSIVE FlowsDownFrom(_, _)
FlowsDownFrom(s, i) ==
    IF i < 0 THEN <<>>
    ELSE (IF s.vnic[i].fw_vnic_id = INVALID_VNIC_ID THEN <<>>
          ELSE [k \in 1 .. Len(s.vnic[i].flow_list) |->
                  [flow |-> s.vnic[i].flow_list[k], vnic |-> i]])
         \o FlowsDownFrom(s, i - 1)

\* The L2 key of a descriptor: ethertype, VLAN ids and masks, both MAC addresses.
SameL2Fields(mf, nf) == mf.pat.mac = nf.pat.mac

\* The loop of bnxt_find_matching_l2_filter: the first scanned flow whose descriptor
\* owns an L2 filter with the same key.
find_l2_in_flows(s, nf, scan) ==
    LET hits == {k \in 1 .. Len(scan) :
                   LET mf == s.filt[s.flow[scan[k].flow].filter]
                   IN  /\ mf.matching_l2_fltr_ptr = NULL
                       /\ SameL2Fields(mf, s.filt[nf])}
    IN  IF hits = {} THEN NULL ELSE s.flow[scan[Min(hits)].flow].filter

\* bnxt_find_matching_l2_filter: the port's filter when the destination MAC is the
\* port's, else the first flow descriptor that owns an L2 filter with the same key.
bnxt_find_matching_l2_filter(s, nf) ==
    LET f0 == s.vnic[0].filter[1]
    IN  IF s.filt[f0].l2_addr = s.filt[nf].pat.mac THEN f0
        ELSE find_l2_in_flows(s, nf, FlowsDownFrom(s, max_vnics - 1))

\* bnxt_create_l2_filter after the firmware's answer h for descriptor f1.
create_l2_installed(f1, h) ==
    IF h.rc # "OK" THEN [s |-> bnxt_free_filter(h.s, f1), l2 |-> NULL]
    ELSE [s |-> [h.s EXCEPT !.filt[f1].l2_ref_cnt = @ + 1], l2 |-> f1]

\* bnxt_create_l2_filter: a new descriptor, installed for the destination MAC.
bnxt_create_l2_filter(s, nf, v, fail) ==
    LET g == bnxt_get_unused_filter(s)
        s1 == [g.s EXCEPT !.filt[g.f].flags = "l2",
                          !.filt[g.f].l2_addr = s.filt[nf].pat.mac]
    IN  IF g.f = NULL THEN [s |-> s, l2 |-> NULL]
        ELSE create_l2_installed(
                 g.f, bnxt_hwrm_set_l2_filter(s1, s.vnic[v].fw_vnic_id, g.f, fail))

\* bnxt_get_l2_filter, the branch that created the filter (c).
get_l2_created(nf, c) ==
    [s |-> [c.s EXCEPT !.filt[nf].matching_l2_fltr_ptr = NULL], l2 |-> c.l2]

\* bnxt_get_l2_filter once the search has answered l2.
get_l2_found(s, nf, v, fail, l2) ==
    IF l2 # NULL
    THEN [s |-> [s EXCEPT !.filt[l2].l2_ref_cnt = @ + 1,
                          !.filt[nf].matching_l2_fltr_ptr = l2],
          l2 |-> l2]
    ELSE get_l2_created(nf, bnxt_create_l2_filter(s, nf, v, fail))

\* bnxt_get_l2_filter: share the matching L2 filter (one more reference) or
\* create one.  The search reads the head of vnic_info[0]'s filter list.
bnxt_get_l2_filter(s, nf, v, fail) ==
    IF s.vnic[0].filter = <<>> THEN [s |-> [s EXCEPT !.crashed = TRUE], l2 |-> NULL]
    ELSE get_l2_found(s, nf, v, fail, bnxt_find_matching_l2_filter(s, nf))

\* bnxt_update_filter_flags_en: an L2-only rule becomes a plain L2 filter; every
\* rule takes the shared filter's firmware id and a copy of its reference count.
bnxt_update_filter_flags_en(s, f, f1, use_ntuple) ==
    LET a == s.filt[f1]
        s1 == IF use_ntuple = 0 /\ valid_flags_l2_only(s.filt[f].pat)
              THEN [s EXCEPT !.filt[f].flags = a.flags,
                             !.filt[f].filter_type = "L2",
                             !.filt[f].l2_addr = a.l2_addr]
              ELSE s
    IN  [s1 EXCEPT !.filt[f].fw_l2_filter_id = a.fw_l2_filter_id,
                   !.filt[f].l2_ref_cnt = a.l2_ref_cnt]

\* ------------------------------------------------------------ action compiler
\* Label ret of bnxt_validate_and_parse_flow (rte_errno is set on every path
\* that reaches it): the partial clean-up.
parse_ret(s, v, q, rc) ==
    LET s1 == IF v # NullVnic /\ s.vnic[v].filter = <<>>
              THEN [s EXCEPT !.vnic[v].rx_queue_cnt = 0] ELSE s
        s2 == IF q # NullQ /\ s1.vnic[v].rx_queue_cnt = 0
              THEN [s1 EXCEPT !.rxq[q].vnic = 0] ELSE s1
    IN  [s |-> s2, rc |-> rc]

\* Label done: the next non-void action must be END.
parse_done(s, rule, v, q) ==
    IF rule.extra THEN parse_ret(s, v, q, "EINVAL") ELSE [s |-> s, rc |-> "OK"]

\* Label use_vnic once bnxt_get_l2_filter has answered g, to the end of the
\* function.
use_vnic_l2(g, f, rule, v, q) ==
    LET s2 == bnxt_update_filter_flags_en(g.s, f, g.l2,
                                          bnxt_filter_type_check(rule.pat))
        s3 == IF g.s.filt[f].matching_l2_fltr_ptr = NULL
              THEN bnxt_free_filter(s2, g.l2) ELSE s2
    IN  IF g.s.crashed THEN [s |-> g.s, rc |-> "EINVAL"]
        ELSE IF g.l2 = NULL THEN parse_ret(g.s, v, q, "ENOSPC")
        ELSE parse_done(s3, rule, v, q)

\* Label use_vnic of the QUEUE action.
use_vnic(s, f, rule, v, q, fail) ==
    use_vnic_l2(bnxt_get_l2_filter([s EXCEPT !.filt[f].dst_id = s.vnic[v].fw_vnic_id],
                                   f, v, fail),
                f, rule, v, q)

\* What the memory past the end of bp->vnic_info reads as, when a rule's index
\* is max_vnics or more: a VNIC in use for another queue, or anything else.
PastEndReads == {"past_in_use", "past_other"}

\* vnic = &bp->vnic_info[vnic_id] with vnic_id >= max_vnics (the test
\* vnic == NULL never holds): the fields of that "VNIC" are read past the end of
\* the table.  Read as in use for another queue, the rule is rejected as
\* "VNIC already in use"; otherwise the compiler goes on and writes there.
vnic_past_end(s, read) ==
    IF read = "past_in_use" THEN parse_ret(s, NullVnic, NullQ, "EINVAL")
    ELSE [s |-> [s EXCEPT !.crashed = TRUE], rc |-> "EINVAL"]

\* case RTE_FLOW_ACTION_TYPE_QUEUE.
parse_queue(s, f, rule, fail) ==
    LET q == rule.q
        v == IF rule.group # 0 THEN rule.group ELSE q
        s1 == [s EXCEPT !.rxq[q] = [vnic |-> v, rx_started |-> 1],
                        !.vnic[v].rx_queue_cnt = @ + 1,
                        !.vnic[v].start_grp_id = q,
                        !.vnic[v].end_grp_id = q]
        p == bnxt_vnic_prep(s1, v, fail)
    IN  IF q = 0 \/ q >= rx_nr_rings THEN parse_ret(s, NullVnic, NullQ, "EINVAL")
        ELSE IF v >= max_vnics THEN vnic_past_end(s, fail)
        ELSE IF s.vnic[v].rx_queue_cnt # 0
        THEN (IF s.vnic[v].start_grp_id # q
              THEN parse_ret(s, v, NullQ, "EINVAL")
              ELSE use_vnic(s, f, rule, v, NullQ, fail))
        ELSE IF ~mq_mode_rss /\ s.vnic[v].fw_vnic_id # INVALID_VNIC_ID
        THEN use_vnic(s, f, rule, v, q, fail)
        ELSE IF q \in DefaultRings THEN parse_ret(s, v, q, "EINVAL")
        ELSE IF p.rc # "OK" THEN parse_ret(p.s, v, q, "EINVAL")
        ELSE use_vnic(p.s, f, rule, v, q, fail)

\* case RTE_FLOW_ACTION_TYPE_DROP / RTE_FLOW_ACTION_TYPE_COUNT once
\* bnxt_get_l2_filter has answered g for vnic_info[0], to the end of the function.
\* The descriptor takes the L2 filter's firmware id and the action's flag; its
\* dst_id is not written.
drop_l2(g, f, rule) ==
    LET s2 == [g.s EXCEPT !.filt[f].fw_l2_filter_id = g.s.filt[g.l2].fw_l2_filter_id,
                          !.filt[f].flags = IF rule.act = "DROP" THEN "drop"
                                            ELSE "meter"]
        s3 == IF g.s.filt[f].matching_l2_fltr_ptr = NULL
              THEN bnxt_free_filter(s2, g.l2) ELSE s2
    IN  IF g.s.crashed THEN [s |-> g.s, rc |-> "EINVAL"]
        ELSE IF g.l2 = NULL THEN parse_ret(g.s, NullVnic, NullQ, "ENOSPC")
        ELSE parse_done(s3, rule, NullVnic, NullQ)

\* case RTE_FLOW_ACTION_TYPE_DROP and case RTE_FLOW_ACTION_TYPE_COUNT.
parse_drop(s, f, rule, fail) ==
    drop_l2(bnxt_get_l2_filter(s, f, 0, fail), f, rule)

\* vnic->fw_grp_ids[j], counted from 1.
GrpAt(s, v, j) ==
    IF j <= Len(s.vnic[v].fw_grp_ids) THEN s.vnic[v].fw_grp_ids[j]
    ELSE INVALID_HW_RING_ID

\* match_vnic_rss_cfg: the request has as many queues as the VNIC, none of them
\* is idle, and the pairs (requested queue, table entry) with equal ring group
\* ids number as many as the VNIC's queues.
match_vnic_rss_cfg(s, v, qs) ==
    LET n == s.vnic[v].rx_queue_cnt
        match == Cardinality({p \in (1 .. n) \X (1 .. n) :
                                 FwGrpId(qs[p[1]]) = GrpAt(s, v, p[2])})
    IN  IF n # Len(qs) THEN "EINVAL"
        ELSE IF \E i \in 1 .. Len(qs) :
                   /\ s.vnic[s.rxq[qs[i]].vnic].rx_queue_cnt = 0
                   /\ s.rxq[qs[i]].rx_started = 0
        THEN "EINVAL"
        ELSE IF match # n THEN "EINVAL"
        ELSE "OK"

\* The loop of the RSS case over rss->queue[k ..]: each queue is checked and
\* bound to the VNIC; q is the function's rxq variable.
RECURSIVE rss_bind(_, _, _, _, _)
rss_bind(s, v, qs, k, q) ==
    IF k > Len(qs) THEN [s |-> s, rc |-> "OK", q |-> q]
    ELSE IF qs[k] = 0 \/ qs[k] >= rx_nr_rings THEN [s |-> s, rc |-> "EINVAL", q |-> q]
    ELSE IF qs[k] \in DefaultRings THEN [s |-> s, rc |-> "EINVAL", q |-> qs[k]]
    ELSE rss_bind([s EXCEPT !.rxq[qs[k]] = [vnic |-> v, rx_started |-> 1],
                            !.vnic[v].rx_queue_cnt = @ + 1],
                  v, qs, k + 1, qs[k])

\* The RSS case once bnxt_vnic_prep has answered p: the ring group table is
\* filled from the request, then label vnic_found.
rss_prepped(p, f, rule, v, q, fail) ==
    IF p.rc # "OK" THEN parse_ret(p.s, v, q, "EINVAL")
    ELSE use_vnic([p.s EXCEPT !.vnic[v].fw_grp_ids =
                                  [i \in 1 .. p.s.vnic[v].rx_queue_cnt |->
                                      FwGrpId(rule.queues[i])]],
                  f, rule, v, q, fail)

\* The RSS case once the loop over the queues has answered b.
rss_bound(b, f, rule, v, fail) ==
    IF b.rc # "OK" THEN parse_ret(b.s, v, b.q, "EINVAL")
    ELSE rss_prepped(
             bnxt_vnic_prep([b.s EXCEPT
                               !.vnic[v].start_grp_id = rule.queues[1],
                               !.vnic[v].end_grp_id = rule.queues[Len(rule.queues)]],
                            v, fail),
             f, rule, v, b.q, fail)

\* case RTE_FLOW_ACTION_TYPE_RSS.
parse_rss(s, f, rule, fail) ==
    LET v == rule.group
    IN  IF v = 0 THEN parse_ret(s, NullVnic, NullQ, "EINVAL")
        ELSE IF v >= max_vnics THEN vnic_past_end(s, fail)
        ELSE IF s.vnic[v].rx_queue_cnt # 0
        THEN (IF match_vnic_rss_cfg(s, v, rule.queues) # "OK"
              THEN parse_ret(s, v, NullQ, "EINVAL")
              ELSE use_vnic(s, f, rule, v, NullQ, fail))
        ELSE rss_bound(rss_bind(s, v, rule.queues, 1, NullQ), f, rule, v, fail)

\* case RTE_FLOW_ACTION_TYPE_VF on a VXLAN pattern: a tunnel redirect, no L2
\* filter.  On a VF the function must be trusted and the action's id 0.
parse_vf(s, f, rule) ==
    IF s.func # "pf" /\ (s.func # "trusted_vf" \/ rule.vf # 0)
    THEN parse_ret(s, NullVnic, NullQ, "EINVAL")
    ELSE parse_done([s EXCEPT !.filt[f].en_tun = TRUE,
                              !.filt[f].filter_type = "TUNNEL"],
                    rule, NullVnic, NullQ)

\* bnxt_validate_and_parse_flow.
bnxt_validate_and_parse_flow(s, f, rule, fail) ==
    LET s1 == bnxt_validate_and_parse_flow_type(s, f, rule.pat)
        s2 == IF s1.filt[f].filter_type = "EM"
              THEN [s1 EXCEPT !.filt[f].flags = "rx"] ELSE s1
    IN  IF rule.act = "QUEUE" THEN parse_queue(s2, f, rule, fail)
        ELSE IF rule.act \in {"DROP", "COUNT"} THEN parse_drop(s2, f, rule, fail)
        ELSE IF rule.act = "RSS" THEN parse_rss(s2, f, rule, fail)
        ELSE parse_vf(s2, f, rule)

\* ------------------------------------------------------ flow table & matcher
\* find_matching_vnic: the first in-use VNIC whose firmware id is the
\* descriptor's destination.
find_matching_vnic(s, f) ==
    LET hits == {i \in Vnics : /\ s.vnic[i].fw_vnic_id # INVALID_VNIC_ID
                               /\ s.filt[f].dst_id = s.vnic[i].fw_vnic_id}
    IN  IF hits = {} THEN NullVnic ELSE Min(hits)

\* bnxt_update_filter: uninstall the old descriptor's filter (and, for an L2
\* rule, install the new descriptor); the firmware's answers are not looked at.
bnxt_update_filter(s, old, new, fail) ==
    LET c == bnxt_hwrm_clear_l2_filter(s, old, fail)
    IN  IF s.filt[new].filter_type = "L2"
        THEN bnxt_hwrm_set_l2_filter(c.s, s.filt[new].dst_id, new, fail).s
        ELSE IF s.filt[new].filter_type \in {"EM", "NTUPLE"}
        THEN bnxt_hwrm_clear_flt(s, old, fail).s
        ELSE s

\* The comparison of bnxt_match_filter: everything but the destination.
SameMatchFields(mf, nf) ==
    /\ mf.filter_type = nf.filter_type
    /\ mf.flags = nf.flags
    /\ mf.pat = nf.pat
    /\ mf.l2_addr = nf.l2_addr

\* bnxt_match_filter over the scanned flows: the first flow with the same match
\* fields; -EEXIST when its destination is the same too, else the flow is
\* re-pointed at nf (-EXDEV).
match_in_flows(s, nf, fail, scan) ==
    LET hits == {k \in 1 .. Len(scan) :
                   SameMatchFields(s.filt[s.flow[scan[k].flow].filter], s.filt[nf])}
        hit == scan[Min(hits)]
        mf == s.flow[hit.flow].filter
    IN  IF hits = {} THEN [s |-> s, rc |-> "OK"]
        ELSE IF s.filt[mf].dst_id = s.filt[nf].dst_id THEN [s |-> s, rc |-> "EEXIST"]
        ELSE IF mf \notin SeqToSet(s.vnic[hit.vnic].filter)
        THEN [s |-> [s EXCEPT !.crashed = TRUE], rc |-> "EXDEV"]
        ELSE [s |-> [bnxt_free_filter(bnxt_update_filter(s, mf, nf, fail), mf) EXCEPT
                       !.vnic[hit.vnic].filter = Append(Remove(@, mf), nf),
                       !.flow[hit.flow].filter = nf],
              rc |-> "EXDEV"]

\* bnxt_match_filter.
bnxt_match_filter(s, nf, fail) ==
    match_in_flows(s, nf, fail, FlowsDownFrom(s, max_vnics - 1))

\* The tunnel-redirect commands of bnxt_flow_create: query, free a redirect
\* that is active, set the new one.
create_tunnel_redirect(s, fail) ==
    IF fail = "tun_query" THEN [s |-> s, rc |-> "EIO"]
    ELSE IF s.tun # "none" /\ fail = "tun_free" THEN [s |-> s, rc |-> "EIO"]
    ELSE IF fail = "tun_set" THEN [s |-> [s EXCEPT !.tun = "none"], rc |-> "EIO"]
    ELSE [s |-> [s EXCEPT !.tun = "self"], rc |-> "OK"]

\* Labels free_filter and free_flow of bnxt_flow_create.
create_fail(s, f, ret) ==
    [s |-> IF f # NULL THEN bnxt_free_filter(s, f) ELSE s, handle |-> NULL, ret |-> ret]

\* Label done of bnxt_flow_create.
create_done(s, fl, f, v, ret, update_flow) ==
    IF ret = "OK" \/ update_flow
    THEN (IF v = NullVnic
          THEN [s |-> [s EXCEPT !.crashed = TRUE], handle |-> NULL, ret |-> ret]
          ELSE IF update_flow THEN [s |-> s, handle |-> NULL, ret |-> "EXDEV"]
          ELSE [s |-> [s EXCEPT !.flow[fl] = [filter |-> f, vnic |-> v],
                                !.flows = @ \cup {fl},
                                !.vnic[v].filter = Append(@, f),
                                !.vnic[v].flow_list = Append(@, fl)],
                handle |-> fl, ret |-> "OK"])
    ELSE create_fail(s, f, ret)

\* bnxt_flow_create from the EM / ntuple install (answer i) to label done.
create_installed(fl, f, i, update_flow) ==
    create_done(i.s, fl, f, find_matching_vnic(i.s, f), i.rc, update_flow)

\* bnxt_flow_create once bnxt_match_filter has answered m.
create_matched(fl, f, m, fail) ==
    LET ft == m.s.filt[f]
        c == bnxt_hwrm_clear_l2_filter(m.s, f, fail)
        t == create_tunnel_redirect(m.s, fail)
    IN  IF m.rc = "EEXIST" THEN create_fail(c.s, f, "EEXIST")
        ELSE IF ft.filter_type = "TUNNEL" /\ ft.en_tun
        THEN (IF t.rc # "OK" THEN create_fail(t.s, f, t.rc)
              ELSE create_done(t.s, fl, f, 0, "OK", m.rc = "EXDEV"))
        ELSE create_installed(fl, f,
                 IF ft.filter_type \in {"EM", "NTUPLE"}
                 THEN bnxt_hwrm_set_flt(m.s, ft.dst_id, f, fail)
                 ELSE [s |-> m.s, rc |-> m.rc],
                 m.rc = "EXDEV")

\* bnxt_flow_create once the parser has answered p.
create_parsed(fl, f, p, fail) ==
    IF p.rc # "OK" THEN create_fail(p.s, f, p.rc)
    ELSE create_matched(fl, f, bnxt_match_filter(p.s, f, fail), fail)

\* bnxt_flow_create, from the allocation of the rte_flow to the return.
create_started(s, rule, fail) ==
    LET g == bnxt_get_unused_filter(s)
    IN  IF g.f = NULL THEN create_fail(s, NULL, "OK")
        ELSE create_parsed(Min(FlowIds \ s.flows), g.f,
                           bnxt_validate_and_parse_flow(g.s, g.f, rule, fail), fail)

\* A create that does not look at the function it is issued on.
create_on_any_function(s, rule, fail) == create_started(s, rule, fail)

\* bnxt_flow_create: a VF that is not trusted creates no flow.
bnxt_flow_create(s, rule, fail) ==
    IF s.func = "vf" THEN [s |-> s, handle |-> NULL, ret |-> "EINVAL"]
    ELSE create_started(s, rule, fail)

\* bnxt_flow_validate after a successful parse (state s, descriptor f).
validate_cleanup(s, f, fail) ==
    LET v == find_matching_vnic(s, f)
        s1 == IF v # NullVnic /\ s.vnic[v].filter = <<>>
              THEN [bnxt_hwrm_vnic_free(s, v) EXCEPT !.vnic[v].rx_queue_cnt = 0]
              ELSE s
        c == IF s.filt[f].filter_type \in {"EM", "NTUPLE"}
             THEN bnxt_hwrm_clear_flt(s1, f, fail)
             ELSE bnxt_hwrm_clear_l2_filter(s1, f, fail)
    IN  [s |-> bnxt_free_filter(c.s, f), ret |-> "OK"]

\* bnxt_flow_validate once the parser has answered p.
validate_parsed(f, p, fail) ==
    IF p.rc # "OK" THEN [s |-> bnxt_free_filter(p.s, f), ret |-> p.rc]
    ELSE validate_cleanup(p.s, f, fail)

\* A validate that keeps what the compile and install of create built.
validate_keeps_flow(s, rule, fail) ==
    [s |-> bnxt_flow_create(s, rule, fail).s,
     ret |-> bnxt_flow_create(s, rule, fail).ret]

\* bnxt_flow_validate, between taking and releasing the flow lock.
bnxt_flow_validate(s, rule, fail) ==
    LET g == bnxt_get_unused_filter(s)
    IN  IF g.f = NULL THEN [s |-> s, ret |-> "ENOMEM"]
        ELSE validate_parsed(g.f, bnxt_validate_and_parse_flow(g.s, g.f, rule, fail),
                             fail)

\* A tunnel teardown that frees the active redirect whoever owns it.
tunnel_destroy_any_owner(s, fail) ==
    IF fail = "tun_query" THEN [s |-> s, rc |-> "EIO"]
    ELSE IF s.tun = "none" THEN [s |-> s, rc |-> "OK"]
    ELSE IF fail = "tun_info" THEN [s |-> s, rc |-> "EIO"]
    ELSE IF fail = "tun_free" THEN [s |-> s, rc |-> "EIO"]
    ELSE [s |-> [s EXCEPT !.tun = "none"], rc |-> "OK"]

\* bnxt_handle_tunnel_redirect_destroy: query the redirect; when one of the
\* descriptor's tunnel type is active ask for its owner, and free it only when
\* the owner is this function.
bnxt_handle_tunnel_redirect_destroy(s, fail) ==
    IF fail = "tun_query" THEN [s |-> s, rc |-> "EIO"]
    ELSE IF s.tun = "none" THEN [s |-> s, rc |-> "OK"]
    ELSE IF fail = "tun_info" THEN [s |-> s, rc |-> "EIO"]
    ELSE IF s.tun # "self" THEN [s |-> s, rc |-> "OK"]
    ELSE IF fail = "tun_free" THEN [s |-> s, rc |-> "EIO"]
    ELSE [s |-> [s EXCEPT !.tun = "none"], rc |-> "OK"]

\* Label done of bnxt_flow_destroy, on success: unlink and free the descriptor
\* and the flow, and free the VNIC whose flow list became empty.
destroy_done(s, fl, f, v) ==
    LET s1 == [bnxt_free_filter(s, f) EXCEPT
                 !.vnic[v].filter = Remove(@, f),
                 !.vnic[v].flow_list = Remove(@, fl),
                 !.flow[fl] = BlankFlow,
                 !.flows = @ \ {fl}]
    IN  IF \/ v = NullVnic
           \/ f \notin SeqToSet(s.vnic[v].filter)
           \/ fl \notin SeqToSet(s.vnic[v].flow_list)
        THEN [s EXCEPT !.crashed = TRUE]
        ELSE IF s1.vnic[v].flow_list = <<>>
        THEN [bnxt_hwrm_vnic_free(s1, v) EXCEPT !.vnic[v].rx_queue_cnt = 0]
        ELSE s1

\* bnxt_flow_destroy once the uninstall commands have answered c.
destroy_cleared(fl, f, v, c) ==
    IF c.rc # "OK" THEN [s |-> c.s, ret |-> c.rc]
    ELSE [s |-> destroy_done(c.s, fl, f, v), ret |-> "OK"]

\* bnxt_flow_destroy once bnxt_match_filter has answered m: the EM / ntuple
\* uninstall, whose result is overwritten, then the L2 uninstall.
destroy_matched(fl, f, v, m, fail) ==
    LET e == IF m.s.filt[f].filter_type \in {"EM", "NTUPLE"}
             THEN bnxt_hwrm_clear_flt(m.s, f, fail).s ELSE m.s
    IN  IF m.s.crashed THEN [s |-> m.s, ret |-> "OK"]
        ELSE destroy_cleared(fl, f, v, bnxt_hwrm_clear_l2_filter(e, f, fail))

\* bnxt_flow_destroy, between taking and releasing the flow lock.
bnxt_flow_destroy(s, fl, fail) ==
    LET f == s.flow[fl].filter
        v == s.flow[fl].vnic
        ft == s.filt[f]
    IN  IF fl = NULL THEN [s |-> s, ret |-> "EINVAL"]
        ELSE IF f = NULL THEN [s |-> s, ret |-> "EINVAL"]
        ELSE IF ft.filter_type = "TUNNEL" /\ ft.en_tun
        THEN destroy_cleared(fl, f, v, bnxt_handle_tunnel_redirect_destroy(s, fail))
        ELSE destroy_matched(fl, f, v, bnxt_match_filter(s, f, fail), fail)

\* One iteration of the loop of bnxt_flow_flush once the uninstall commands have
\* answered h: the descriptor and the flow are freed.
flush_freed(h, i, fl, f) ==
    [bnxt_free_filter(h.s, f) EXCEPT
       !.vnic[i].flow_list = Remove(@, fl),
       !.flow[fl] = BlankFlow,
       !.flows = @ \ {fl}]

\* The uninstall commands of one iteration for descriptor f of VNIC i.
flush_clear(s, i, f, fail) ==
    LET ft == s.filt[f]
        e == IF ft.filter_type = "EM"
             THEN bnxt_hwrm_clear_flt(s, f, fail) ELSE [s |-> s, rc |-> "OK"]
    IN  IF ft.filter_type = "TUNNEL" /\ ft.en_tun
        THEN bnxt_handle_tunnel_redirect_destroy(s, fail)
        ELSE IF ft.filter_type = "NTUPLE" THEN bnxt_hwrm_clear_flt(e.s, f, fail)
        ELSE IF i = 0 THEN bnxt_hwrm_clear_l2_filter(e.s, f, fail)
        ELSE e

\* The loop of bnxt_flow_flush over one VNIC's flow list.  After rte_free(flow)
\* the loop reads the freed flow's next pointer (uaf): the old value, or NULL.
RECURSIVE flush_list(_, _, _, _, _)
\* A loop that goes on after a failed uninstall command.
flush_step_on(h, i, rest, fail, uaf) ==
    IF uaf = "null"
    THEN [s |-> flush_freed(h, i, Head(rest), h.s.flow[Head(rest)].filter),
          ret |-> "OK"]
    ELSE flush_list(flush_freed(h, i, Head(rest), h.s.flow[Head(rest)].filter),
                    i, Tail(rest), fail, uaf)

flush_step(h, i, rest, fail, uaf) ==
    IF h.rc # "OK" THEN [s |-> h.s, ret |-> h.rc]
    ELSE IF uaf = "null"
    THEN [s |-> flush_freed(h, i, Head(rest), h.s.flow[Head(rest)].filter),
          ret |-> "OK"]
    ELSE flush_list(flush_freed(h, i, Head(rest), h.s.flow[Head(rest)].filter),
                    i, Tail(rest), fail, uaf)

flush_list(s, i, rest, fail, uaf) ==
    IF rest = <<>> THEN [s |-> s, ret |-> "OK"]
    ELSE flush_step(flush_clear(s, i, s.flow[Head(rest)].filter, fail),
                    i, rest, fail, uaf)

\* bnxt_flow_flush once VNIC i's list has been processed with answer r.
RECURSIVE flush_from(_, _, _, _)
flush_next(r, i, fail, uaf) ==
    IF r.ret # "OK" THEN r ELSE flush_from(r.s, i + 1, fail, uaf)

\* bnxt_flow_flush: every in-use VNIC from vnic_info[0] up; the first failing
\* command ends the call.
flush_from(s, i, fail, uaf) ==
    IF i >= max_vnics THEN [s |-> s, ret |-> "OK"]
    ELSE IF s.vnic[i].fw_vnic_id = INVALID_VNIC_ID THEN flush_from(s, i + 1, fail, uaf)
    ELSE flush_next(flush_list(s, i, s.vnic[i].flow_list, fail, uaf), i, fail, uaf)

bnxt_flow_flush(s, fail, uaf) == flush_from(s, 0, fail, uaf)

\* --------------------------------------------------------------- operations
\* The driver's data after a handler; once the process has faulted nothing
\* else is recorded.
Commit(s, fail) ==
    /\ calls' = calls + 1
    /\ fail # "none" => faults < MaxFaults
    /\ faults' = IF fail = "none" THEN faults ELSE faults + 1
    /\ \A i \in FilterIds : s.filt[i].l2_ref_cnt <= MaxRef
    /\ crashed' = s.crashed
    /\ func' = func
    /\ UNCHANGED <<items, parsed, rss>>
    /\ IF s.crashed
       THEN UNCHANGED <<filt, freeF, vnic, rxq, flow, flows, hwL2, hwFlt, tun>>
       ELSE /\ filt' = s.filt
            /\ freeF' = s.freeF
            /\ vnic' = s.vnic
            /\ rxq' = s.rxq
            /\ flow' = s.flow
            /\ flows' = s.flows
            /\ hwL2' = s.hwL2
            /\ hwFlt' = s.hwFlt
            /\ tun' = s.tun

\* The RSS case is not running: no table entry written, no loop entered.
NoRss ==
    [pos |-> "idle", v |-> NullVnic, rss_idx |-> 0, i |-> 0,
     rss_table |-> [k \in 0 .. (HW_HASH_INDEX_SIZE + MaxTableQueues - 1) |->
                      INVALID_HW_RING_ID]]

NoLast ==
    [op |-> "none", ret |-> "OK", handle |-> NULL, rule |-> NoRule,
     again |-> FALSE, retarget |-> FALSE]

\* The port after bnxt_init_nic and dev_start, no rule created yet; k is what
\* the port is and t is the owner of the adapter's VXLAN tunnel redirect at that
\* time.
InitDriver(k, t) ==
    /\ filt = InitData(t).filt
    /\ freeF = InitData(t).freeF
    /\ vnic = InitData(t).vnic
    /\ rxq = InitData(t).rxq
    /\ flow = InitData(t).flow
    /\ flows = InitData(t).flows
    /\ hwL2 = InitData(t).hwL2
    /\ hwFlt = InitData(t).hwFlt
    /\ tun = t
    /\ func = k
    /\ calls = 0
    /\ faults = 0
    /\ crashed = FALSE
    /\ lock = 0
    /\ pc = [th \in Threads |-> "idle"]
    /\ last = NoLast
    /\ rss = NoRss

\* The started port, with no pattern handed to the field extractor.
InitOn(k, t) ==
    /\ InitDriver(k, t)
    /\ items = <<>>
    /\ parsed = NotParsed

\* The port is a physical function.
InitWith(t) == InitOn("pf", t)

Init == InitWith("none")

\* The outcome r of a handler becomes the next state.
Finish(r, fail, op, handle, rule, again, retarget) ==
    /\ Commit(r.s, fail)
    /\ last' = [op |-> op, ret |-> r.ret, handle |-> handle, rule |-> rule,
                again |-> again, retarget |-> retarget]

\* The call before this one was a create that returned a Flow.
AfterCreate == last.op = "create" /\ last.handle # NULL

\* This create repeats the rule of the create just before it.
IsAgain(rule) == AfterCreate /\ rule = last.rule

\* This create names the pattern of the create just before it and another
\* queue that a rule may use; group 0, one action, no firmware failure.
IsRetarget(rule, fail) ==
    /\ AfterCreate
    /\ fail = "none"
    /\ rule \in QueueRules
    /\ last.rule \in QueueRules
    /\ rule.pat = last.rule.pat
    /\ rule.q # last.rule.q
    /\ rule.q \in UsableQueues

FinishCreate(r, fail, rule) ==
    Finish(r, fail, "create", r.handle,
           IF r.handle # NULL \/ IsRetarget(rule, fail) THEN rule ELSE NoRule,
           IsAgain(rule), IsRetarget(rule, fail))

\* What each handler does between taking and releasing bp->flow_lock.
ValidateBody ==
    \E rule \in Rules : \E fail \in ValidateFails(rule) :
       Finish(bnxt_flow_validate(Cur, rule, fail), fail, "validate", NULL, NoRule,
              FALSE, FALSE)

CreateBody ==
    /\ Cardinality(flows) < MaxFlows
    /\ \E rule \in Rules : \E fail \in CreateFails(rule) :
         FinishCreate(bnxt_flow_create(Cur, rule, fail), fail, rule)

DestroyBody ==
    \E fl \in flows \cup {NULL}, fail \in FailPoints :
       Finish(bnxt_flow_destroy(Cur, fl, fail), fail, "destroy", fl, NoRule,
              FALSE, FALSE)

FlushBody ==
    \E fail \in FlushFails, uaf \in UafReads :
       Finish(bnxt_flow_flush(Cur, fail, uaf), fail, "flush", NULL, NoRule,
              FALSE, FALSE)

\* One application thread: every handler runs from its lock acquisition to its
\* lock release in one step.
\* rte_flow_validate.
Validate == ~crashed /\ calls < MaxCalls /\ ValidateBody /\ UNCHANGED <<lock, pc>>

\* rte_flow_create.
Create == ~crashed /\ calls < MaxCalls /\ CreateBody /\ UNCHANGED <<lock, pc>>

\* rte_flow_destroy.
Destroy == ~crashed /\ calls < MaxCalls /\ DestroyBody /\ UNCHANGED <<lock, pc>>

\* rte_flow_flush.
Flush == ~crashed /\ calls < MaxCalls /\ FlushBody /\ UNCHANGED <<lock, pc>>

Next == Validate \/ Create \/ Destroy \/ Flush

Spec == Init /\ [][Next]_vars

\* ------------------------------------------------- several application threads
Ops == {"validate", "create", "destroy", "flush"}

\* bnxt_acquire_flow_lock: pthread_mutex_lock, returns once the mutex is free.
bnxt_acquire_flow_lock(t) == lock = 0 /\ lock' = t

\* A handler that returns without its bnxt_release_flow_lock call.
release_skipped == lock' = lock

\* bnxt_release_flow_lock: pthread_mutex_unlock.  A thread that faulted inside
\* the handler never gets there.
bnxt_release_flow_lock == lock' = IF crashed' THEN lock ELSE 0

\* A handler that enters without waiting for bp->flow_lock.
AcquireNoWait(t) ==
    /\ ~crashed
    /\ pc[t] = "idle"
    /\ calls < MaxThreadCalls
    /\ lock' = t
    /\ \E op \in Ops : pc' = [pc EXCEPT ![t] = op]
    /\ UNCHANGED <<filt, freeF, vnic, rxq, flow, flows, hwL2, hwFlt, tun, func,
                   calls, faults, crashed, last, items, parsed, rss>>

\* A thread enters a handler and passes its bnxt_acquire_flow_lock call.
Acquire(t) ==
    /\ ~crashed
    /\ pc[t] = "idle"
    /\ calls < MaxThreadCalls
    /\ bnxt_acquire_flow_lock(t)
    /\ \E op \in Ops : pc' = [pc EXCEPT ![t] = op]
    /\ UNCHANGED <<filt, freeF, vnic, rxq, flow, flows, hwL2, hwFlt, tun, func,
                   calls, faults, crashed, last, items, parsed, rss>>

\* The thread runs the handler's body and leaves through one of its
\* bnxt_release_flow_lock calls.
Leave(t) == bnxt_release_flow_lock /\ pc' = [pc EXCEPT ![t] = "idle"]

RunValidate(t) == ~crashed /\ pc[t] = "validate" /\ ValidateBody /\ Leave(t)

RunCreate(t) == ~crashed /\ pc[t] = "create" /\ CreateBody /\ Leave(t)

RunDestroy(t) == ~crashed /\ pc[t] = "destroy" /\ DestroyBody /\ Leave(t)

RunFlush(t) == ~crashed /\ pc[t] = "flush" /\ FlushBody /\ Leave(t)

NextThreads ==
    \E t \in Threads :
       \/ Acquire(t)
       \/ RunValidate(t)
       \/ RunCreate(t)
       \/ RunDestroy(t)
       \/ RunFlush(t)

SpecThreads == Init /\ [][NextThreads]_vars

\* ---------------------------------------- rules that share one L2 filter
\* Rules whose patterns all carry the same destination MAC (not the port's own),
\* all steering to the same queue; no firmware command fails.
ShareMac == MaxMac
ShareRules ==
    [pat : [kind : {"eth"}, mac : {ShareMac}, ip : {0}]
           \cup [kind : {"ip"}, mac : {ShareMac}, ip : 1 .. MaxShareIp],
     act : {"QUEUE"}, q : {Min(UsableQueues)}, group : {0}, extra : {FALSE},
     queues : {NoQueues}, vf : {0}]

ShareCreate ==
    /\ ~crashed
    /\ calls < MaxShareCalls
    /\ Cardinality(flows) < MaxFlows
    /\ \E rule \in ShareRules :
         FinishCreate(bnxt_flow_create(Cur, rule, "none"), "none", rule)
    /\ UNCHANGED <<lock, pc>>

ShareDestroy ==
    /\ ~crashed
    /\ calls < MaxShareCalls
    /\ \E fl \in flows :
         Finish(bnxt_flow_destroy(Cur, fl, "none"), "none", "destroy", fl, NoRule,
                FALSE, FALSE)
    /\ UNCHANGED <<lock, pc>>

NextShare == ShareCreate \/ ShareDestroy

SpecShare == Init /\ [][NextShare]_vars

\* ------------------------------------------------------------------ properties
DriverData == <<filt, freeF, vnic, rxq, flow, flows, hwL2, hwFlt, tun>>

\* C1: with two threads calling the flow operations, at most one of them is
\* between its acquire and its release of the flow lock, a thread that leaves a
\* handler is the one holding the lock, and the flow lists, the filter lists,
\* the queue counts and the hardware tables change only in a step of the thread
\* that holds the lock.
C1_FlowLockExcludes ==
    [][ /\ Cardinality({t \in Threads : pc'[t] # "idle"}) <= 1
        /\ \A t \in Threads : (pc[t] # "idle" /\ pc'[t] = "idle") => lock = t
        /\ DriverData' # DriverData
              => \E t \in Threads : pc[t] # "idle" /\ pc'[t] = "idle" /\ lock = t
      ]_vars

\* A thread holds the lock inside destroy, after a create of another call
\* changed the lists, while the other thread is outside.
C1_Witness ==
    \E t \in Threads :
       /\ lock = t
       /\ pc[t] = "destroy"
       /\ \E u \in Threads : u # t /\ pc[u] = "idle"
       /\ flows # {}
       /\ last.op = "create"

\* The live Flows whose rules carry the shared L2 fields, and the hardware L2
\* filters installed for those fields.
ShareFlows == {fl \in flows : filt[flow[fl].filter].pat.mac = ShareMac}
SharedL2InHw == {e \in hwL2 : e.mac = ShareMac}

\* C2: of N rules with identical L2 fields, destroying any N-1 leaves their
\* shared L2 filter installed in hardware, and destroying the last uninstalls
\* it: the filter is installed exactly while one of the rules is live.
C2_SharedL2Lifetime ==
    IF ShareFlows = {} THEN SharedL2InHw = {} ELSE SharedL2InHw # {}

\* The Flows whose descriptor points at descriptor p as its shared L2 filter.
Pointers(p) == {fl \in flows : filt[flow[fl].filter].matching_l2_fltr_ptr = p}

\* C3: a shared L2 filter some Flow points at is not in the pool, counts at
\* least the Flows that point at it, and is installed in hardware.
C3_SharedL2Pinned ==
    \A fl \in flows :
       LET d == flow[fl].filter
           p == filt[d].matching_l2_fltr_ptr
       IN  p # NULL =>
              /\ p \notin freeF
              /\ filt[p].l2_ref_cnt >= Cardinality(Pointers(p))
              /\ \E e \in hwL2 : e.id = filt[d].fw_l2_filter_id

\* C4: a create that repeats the rule of the successful create just before it
\* fails with EEXIST, returns no Flow and leaves the size of every flow list.
C4_DuplicateRejected ==
    [][ (last'.op = "create" /\ last'.again)
           => /\ last'.ret = "EEXIST"
              /\ last'.handle = NULL
              /\ \A v \in Vnics : Len(vnic'[v].flow_list) = Len(vnic[v].flow_list)
      ]_vars

\* C5: a create that names the pattern of the successful create just before it
\* and another queue succeeds: it returns a Flow and reports no error.
C5_RetargetSucceeds ==
    [][ (last'.op = "create" /\ last'.retarget)
           => (last'.handle # NULL /\ last'.ret = "OK")
      ]_vars

\* C6: after such a create there is exactly one Flow for the pattern, it is the
\* Flow of the first create, its descriptor targets the context of the second
\* queue, and the Flow is in the flow list of, and owned by, that context.
C6_RetargetMovesFlow ==
    [][ (last'.op = "create" /\ last'.retarget)
           => /\ {fl \in flows' : filt'[flow'[fl].filter].pat = last'.rule.pat}
                    = {last.handle}
              /\ filt'[flow'[last.handle].filter].dst_id
                    = vnic'[last'.rule.q].fw_vnic_id
              /\ flow'[last.handle].vnic = last'.rule.q
              /\ last.handle \in SeqToSet(vnic'[last'.rule.q].flow_list)
      ]_vars

\* C7: such a create tears down the context of the first queue when the moved
\* Flow was its only one: no firmware id, queue count zero.
C7_RetargetTearsDown ==
    [][ (/\ last'.op = "create"
         /\ last'.retarget
         /\ vnic[flow[last.handle].vnic].flow_list = <<last.handle>>)
           => /\ vnic'[flow[last.handle].vnic].fw_vnic_id = INVALID_VNIC_ID
              /\ vnic'[flow[last.handle].vnic].rx_queue_cnt = 0
      ]_vars

\* C8: validate creates no Flow and leaves every flow list as it was.
C8_ValidateKeepsFlows ==
    [][ last'.op = "validate"
           => /\ flows' = flows
              /\ \A v \in Vnics : vnic'[v].flow_list = vnic[v].flow_list
      ]_vars

\* A validate of an acceptable rule returned success while Flows are live.
C8_Witness ==
    /\ last.op = "validate"
    /\ last.ret = "OK"
    /\ flows # {}
    /\ \E v \in Vnics : vnic[v].flow_list # <<>>

\* C9: validate leaves the provisioned contexts, their queue counts and queue
\* ranges, and every queue's bound context and started flag as they were.
C9_ValidateKeepsContexts ==
    [][ last'.op = "validate"
           => /\ \A v \in Vnics :
                    /\ (vnic'[v].fw_vnic_id = INVALID_VNIC_ID)
                          = (vnic[v].fw_vnic_id = INVALID_VNIC_ID)
                    /\ vnic'[v].rx_queue_cnt = vnic[v].rx_queue_cnt
                    /\ vnic'[v].start_grp_id = vnic[v].start_grp_id
                    /\ vnic'[v].end_grp_id = vnic[v].end_grp_id
              /\ rxq' = rxq
      ]_vars

\* C10: the default context (vnic_info[0]) keeps its firmware id and its queue
\* count, whatever Flows are created on it and destroyed.
C10_DefaultContextKept ==
    /\ vnic[0].fw_vnic_id # INVALID_VNIC_ID
    /\ vnic[0].rx_queue_cnt # 0

\* C11: after a flush that returns success every context's flow list is empty
\* and every non-default context left without queues has been torn down.
C11_FlushComplete ==
    [][ (last'.op = "flush" /\ last'.ret = "OK")
           => /\ \A v \in Vnics : vnic'[v].flow_list = <<>>
              /\ \A v \in Vnics \ {0} :
                    vnic'[v].rx_queue_cnt = 0
                       => vnic'[v].fw_vnic_id = INVALID_VNIC_ID
      ]_vars

\* C12: a create or a validate that fails leaves no partial state behind: the
\* contexts provisioned, their queue counts, every queue's bound context and
\* started flag, the shared L2 reference counts and the installed L2 filters
\* are what they were before the call.
C12_FailureRollsBack ==
    [][ (last'.op \in {"create", "validate"} /\ last'.ret \notin {"OK", "EXDEV"})
           => /\ \A v \in Vnics :
                    /\ vnic'[v].fw_vnic_id = vnic[v].fw_vnic_id
                    /\ vnic'[v].rx_queue_cnt = vnic[v].rx_queue_cnt
              /\ rxq' = rxq
              /\ \A i \in FilterIds : filt'[i].l2_ref_cnt = filt[i].l2_ref_cnt
              /\ hwL2' = hwL2
      ]_vars

\* Rules with an exact destination MAC and a QUEUE action on a queue that is in
\* range and not a ring of vnic_info[0]; group 0, one action.
ExactMacQueueRules ==
    {r \in QueueRules : r.pat.kind = "eth" /\ r.q \in UsableQueues}

\* This step is a create of the rule during which no firmware command fails.
CreateOf(rule) ==
    /\ last'.op = "create"
    /\ FinishCreate(bnxt_flow_create(Cur, rule, "none"), "none", rule)

\* C13: a create of an exact-MAC rule on a queue whose context is not in use
\* returns a Flow bound to that context, provisioned with exactly that queue;
\* the destroy of that Flow right after returns success and the context is
\* torn down.
C13_QueueCreateDestroy ==
    [][ /\ \A rule \in ExactMacQueueRules :
             (/\ vnic[rule.q].rx_queue_cnt = 0
              /\ vnic[rule.q].flow_list = <<>>
              /\ CreateOf(rule))
                => /\ last'.ret = "OK"
                   /\ last'.handle # NULL
                   /\ flow'[last'.handle].vnic = rule.q
                   /\ vnic'[rule.q].fw_vnic_id # INVALID_VNIC_ID
                   /\ vnic'[rule.q].rx_queue_cnt = 1
                   /\ vnic'[rule.q].start_grp_id = rule.q
                   /\ vnic'[rule.q].end_grp_id = rule.q
                   /\ rxq'[rule.q].vnic = rule.q
        /\ (/\ last.op = "create"
            /\ last.handle # NULL
            /\ last.rule \in ExactMacQueueRules
            /\ vnic[last.rule.q].flow_list = <<last.handle>>
            /\ last'.op = "destroy"
            /\ last'.handle = last.handle
            /\ faults' = faults)
              => /\ last'.ret = "OK"
                 /\ vnic'[last.rule.q].fw_vnic_id = INVALID_VNIC_ID
                 /\ vnic'[last.rule.q].rx_queue_cnt = 0
      ]_vars

\* ------------------------------------------------ flush with tunnel ownership
\* Rules are created without firmware failures, another function of the adapter
\* may take over the VXLAN tunnel redirect this function set, and flush runs
\* with any failing firmware command.
FlushRules == {r \in QueueRules : r.q \in UsableQueues} \cup {r \in TunnelRules : ~r.extra}

FlushCreate ==
    /\ ~crashed
    /\ calls < MaxFlushCalls
    /\ Cardinality(flows) < MaxFlows
    /\ \E rule \in FlushRules :
         FinishCreate(bnxt_flow_create(Cur, rule, "none"), "none", rule)
    /\ UNCHANGED <<lock, pc>>

\* The firmware gives the tunnel redirect to another function.
TunnelTaken ==
    /\ ~crashed
    /\ tun = "self"
    /\ tun' = "other"
    /\ UNCHANGED <<filt, freeF, vnic, rxq, flow, flows, hwL2, hwFlt, func, calls,
                   faults, crashed, lock, pc, last, items, parsed, rss>>

FlushFlush == ~crashed /\ calls < MaxFlushCalls /\ FlushBody /\ UNCHANGED <<lock, pc>>

NextFlush == FlushCreate \/ TunnelTaken \/ FlushFlush

SpecFlush == Init /\ [][NextFlush]_vars

\* This step is a flush during which the firmware fails the command fail and the
\* read of a freed flow's next pointer yields uaf.
FlushOf(fail, uaf) ==
    /\ last'.op = "flush"
    /\ Finish(bnxt_flow_flush(Cur, fail, uaf), fail, "flush", NULL, NoRule,
              FALSE, FALSE)

\* The Flows a flush visits, in order: the lists of the in-use contexts from
\* vnic_info[0] up; one Flow per list when the freed next pointer reads as NULL.
RECURSIVE FlushVisits(_, _)
FlushVisits(i, uaf) ==
    IF i >= max_vnics THEN <<>>
    ELSE (IF vnic[i].fw_vnic_id = INVALID_VNIC_ID \/ vnic[i].flow_list = <<>>
          THEN <<>>
          ELSE IF uaf = "null" THEN <<Head(vnic[i].flow_list)>>
          ELSE vnic[i].flow_list)
         \o FlushVisits(i + 1, uaf)

\* The firmware fails the uninstall command flush issues for Flow fl.  A tunnel
\* redirect that this function does not own needs no command.
UninstallFails(fl, fail) ==
    LET ft == filt[flow[fl].filter]
    IN  IF ft.filter_type = "TUNNEL"
        THEN \/ fail = "tun_query"
             \/ (fail = "tun_info" /\ tun # "none")
             \/ (fail = "tun_free" /\ tun = "self")
        ELSE IF ft.filter_type \in {"EM", "NTUPLE"}
        THEN fail = "flt_free" /\ ft.fw_flt_id # INVALID_FILTER_ID
        ELSE FALSE

\* The Flows a flush removes: the visited ones before the first failing one.
FlushGone(vis, fail) ==
    LET bad == {k \in 1 .. Len(vis) : UninstallFails(vis[k], fail)}
    IN  {vis[k] : k \in 1 .. (IF bad = {} THEN Len(vis) ELSE Min(bad) - 1)}

\* C16: flush goes on after a tunnel Flow whose redirect another function owns
\* and removes it; at the first Flow whose uninstall command fails it stops and
\* returns the error; the Flows removed before stay removed, and the failing
\* Flow and every Flow not visited stay in their flow lists.
C16_FlushStopsAtFailure ==
    [][ \A fail \in FlushFails, uaf \in UafReads :
           FlushOf(fail, uaf)
              => /\ (last'.ret = "OK")
                       = (\A k \in 1 .. Len(FlushVisits(0, uaf)) :
                             ~UninstallFails(FlushVisits(0, uaf)[k], fail))
                 /\ flows' = flows \ FlushGone(FlushVisits(0, uaf), fail)
                 /\ \A v \in Vnics :
                       vnic'[v].flow_list
                          = SelectSeq(vnic[v].flow_list,
                                      LAMBDA x : x \notin FlushGone(FlushVisits(0, uaf),
                                                                     fail))
      ]_vars

\* A flush removed the tunnel Flow whose redirect another function had taken
\* and then stopped with an error at the ntuple Flow, which is still listed.
C16_Witness ==
    /\ last.op = "flush"
    /\ last.ret = "EIO"
    /\ tun = "other"
    /\ calls = 3
    /\ Cardinality(flows) = 1
    /\ vnic[0].flow_list = <<>>
    /\ \A fl \in flows : /\ filt[flow[fl].filter].filter_type = "NTUPLE"
                         /\ filt[flow[fl].filter].fw_flt_id # INVALID_FILTER_ID
                         /\ vnic[flow[fl].vnic].flow_list = <<fl>>

\* This step is a destroy of Flow fl during which the firmware fails the
\* command fail.
DestroyOf(fl, fail) ==
    /\ last'.op = "destroy"
    /\ last'.handle = fl
    /\ Finish(bnxt_flow_destroy(Cur, fl, fail), fail, "destroy", fl, NoRule,
              FALSE, FALSE)

\* The firmware fails the EM / ntuple uninstall command of Flow fl.
FltUninstallFails(fl, fail) ==
    /\ filt[flow[fl].filter].filter_type \in {"EM", "NTUPLE"}
    /\ filt[flow[fl].filter].fw_flt_id # INVALID_FILTER_ID
    /\ fail = "flt_free"

\* C17: a destroy during which the EM / ntuple uninstall command of the Flow
\* fails does not return success, whatever the L2 uninstall after it answers,
\* and a flush does not remove a Flow whose uninstall command failed.
C17_NoSilentDowngrade ==
    [][ /\ \A fl \in flows, fail \in FailPoints :
             (DestroyOf(fl, fail) /\ FltUninstallFails(fl, fail))
                => last'.ret # "OK"
        /\ \A fail \in FlushFails, uaf \in UafReads :
             FlushOf(fail, uaf)
                => \A k \in 1 .. Len(FlushVisits(0, uaf)) :
                      UninstallFails(FlushVisits(0, uaf)[k], fail)
                         => FlushVisits(0, uaf)[k] \in flows'
      ]_vars

\* C18: a destroy that returns an error leaves the Flow in its context's flow
\* list, still owning its descriptor, the descriptor's filters still installed
\* and the context provisioned; a Flow is removed only by a destroy that
\* returns success.
C18_FailedDestroyKeepsFlow ==
    [][ (last'.op = "destroy" /\ last'.handle \in flows)
           => /\ last'.ret # "OK"
                   => /\ last'.handle \in flows'
                      /\ flow'[last'.handle] = flow[last'.handle]
                      /\ \A v \in Vnics : /\ vnic'[v].flow_list = vnic[v].flow_list
                                          /\ vnic'[v].filter = vnic[v].filter
                                          /\ vnic'[v].fw_vnic_id = vnic[v].fw_vnic_id
                      /\ filt'[flow[last'.handle].filter].fw_flt_id
                            = filt[flow[last'.handle].filter].fw_flt_id
                      /\ filt'[flow[last'.handle].filter].fw_l2_filter_id
                            = filt[flow[last'.handle].filter].fw_l2_filter_id
                      /\ hwFlt' = hwFlt
                      /\ hwL2' = hwL2
              /\ flows' # flows => last'.ret = "OK"
      ]_vars

\* The filters of descriptor f are in the hardware: the L2 filter it uses, and
\* its EM / ntuple filter or its tunnel redirect.
Installed(f) ==
    IF filt[f].filter_type = "TUNNEL" THEN tun = "self"
    ELSE /\ filt[f].fw_l2_filter_id # INVALID_FILTER_ID
         /\ \E e \in hwL2 : e.id = filt[f].fw_l2_filter_id
         /\ filt[f].filter_type \in {"EM", "NTUPLE"}
               => /\ filt[f].fw_flt_id # INVALID_FILTER_ID
                  /\ \E e \in hwFlt : e.id = filt[f].fw_flt_id

\* C19: while no handler holds the flow lock, every Flow in a flow list owns a
\* descriptor that is installed in the hardware.
C19_ListedFlowsInstalled ==
    lock = 0
       => \A v \in Vnics : \A k \in 1 .. Len(vnic[v].flow_list) :
             /\ flow[vnic[v].flow_list[k]].filter # NULL
             /\ flow[vnic[v].flow_list[k]].filter \notin freeF
             /\ Installed(flow[vnic[v].flow_list[k]].filter)

\* ------------------------------------------------------ drop and count rules
\* Rules with a DROP or a COUNT action, next to rules that steer to a queue.
DropRules ==
    [pat : {p \in Patterns : p.kind # "tun"}, act : {"DROP", "COUNT"}, q : {0},
     group : {0}, extra : {FALSE}, queues : {NoQueues}, vf : {0}]

DropFails == {"none", "l2_alloc", "flt_alloc"}

DropCreate ==
    /\ ~crashed
    /\ calls < MaxDropCalls
    /\ Cardinality(flows) < MaxFlows
    /\ \E rule \in DropRules \cup ExactMacQueueRules : \E fail \in DropFails :
         FinishCreate(bnxt_flow_create(Cur, rule, fail), fail, rule)
    /\ UNCHANGED <<lock, pc>>

DropDestroy ==
    /\ ~crashed
    /\ calls < MaxDropCalls
    /\ \E fl \in flows :
         Finish(bnxt_flow_destroy(Cur, fl, "none"), "none", "destroy", fl, NoRule,
                FALSE, FALSE)
    /\ UNCHANGED <<lock, pc>>

DropFlush == ~crashed /\ calls < MaxDropCalls /\ FlushBody /\ UNCHANGED <<lock, pc>>

NextDrop == DropCreate \/ DropDestroy \/ DropFlush

SpecDrop == Init /\ [][NextDrop]_vars

\* C14: a create of a rule with a DROP or a COUNT action, with a descriptor
\* free and no firmware failure, returns a Flow that is in a flow list, where
\* destroy and flush find it, and the process goes on.
C14_DropCountRegistered ==
    [][ \A rule \in DropRules :
           (/\ freeF # {}
            /\ \A fl \in flows : filt[flow[fl].filter].pat # rule.pat
            /\ CreateOf(rule))
              => /\ ~crashed'
                 /\ last'.ret = "OK"
                 /\ last'.handle # NULL
                 /\ \E v \in Vnics : last'.handle \in SeqToSet(vnic'[v].flow_list)
      ]_vars

\* ------------------------------------------------------------------ RSS rules
\* Rules with an RSS action: a group and one to MaxRssQueues queues, each in
\* 1 .. rx_nr_rings - 1, in any order and with repetitions.
RssRules ==
    [pat : {p \in Patterns : p.kind = "eth"}, act : {"RSS"}, q : {0},
     group : 0 .. MaxGroup, extra : {FALSE},
     queues : UNION {[1 .. n -> 1 .. rx_nr_rings - 1] : n \in 1 .. MaxRssQueues},
     vf : {0}]

RssFails == {"none", "vnic_cfg"}

RssCreate ==
    /\ ~crashed
    /\ calls < MaxRssCalls
    /\ Cardinality(flows) < MaxFlows
    /\ \E rule \in RssRules : \E fail \in RssFails :
         FinishCreate(bnxt_flow_create(Cur, rule, fail), fail, rule)
    /\ UNCHANGED <<lock, pc>>

RssValidate ==
    /\ ~crashed
    /\ calls < MaxRssCalls
    /\ \E rule \in RssRules :
         Finish(bnxt_flow_validate(Cur, rule, "none"), "none", "validate", NULL,
                NoRule, FALSE, FALSE)
    /\ UNCHANGED <<lock, pc>>

RssDestroy ==
    /\ ~crashed
    /\ calls < MaxRssCalls
    /\ \E fl \in flows :
         Finish(bnxt_flow_destroy(Cur, fl, "none"), "none", "destroy", fl, NoRule,
                FALSE, FALSE)
    /\ UNCHANGED <<lock, pc>>

NextRss == RssCreate \/ RssValidate \/ RssDestroy

SpecRss == Init /\ [][NextRss]_vars

\* The queues whose ring groups are in the VNIC's ring group table.
BoundQueues(v) == {q \in Queues : FwGrpId(q) \in SeqToSet(vnic[v].fw_grp_ids)}

\* C15: a create with an RSS action on a group whose context has queues bound
\* fails with the mismatch error whenever the set of requested queues is not
\* the set of bound queues, also when the request has the same length and
\* names a bound queue twice.
C15_RssMismatchRejected ==
    [][ \A rule \in RssRules :
           (/\ rule.group # 0
            /\ vnic[rule.group].rx_queue_cnt # 0
            /\ SeqToSet(rule.queues) # BoundQueues(rule.group)
            /\ CreateOf(rule))
              => /\ last'.ret = "EINVAL"
                 /\ last'.handle = NULL
      ]_vars

\* ------------------------------------------------- the port is a VF or a PF
\* BNXT_PF / BNXT_VF and BNXT_VF_IS_TRUSTED of the port.
FuncKinds == {"pf", "vf", "trusted_vf"}

\* Rules that redirect the VXLAN tunnel to the VF with the given id.
VfRules ==
    [pat : {p \in Patterns : p.kind = "tun"}, act : {"VF"}, q : {0},
     group : {0}, extra : {FALSE}, queues : {NoQueues}, vf : 0 .. MaxVf]

InitVf == \E k \in FuncKinds : InitOn(k, "none")

VfCreate ==
    /\ ~crashed
    /\ calls < MaxVfCalls
    /\ Cardinality(flows) < MaxFlows
    /\ \E rule \in VfRules \cup ExactMacQueueRules :
         Finish(bnxt_flow_create(Cur, rule, "none"), "none", "create",
                bnxt_flow_create(Cur, rule, "none").handle, rule, FALSE, FALSE)
    /\ UNCHANGED <<lock, pc>>

VfValidate ==
    /\ ~crashed
    /\ calls < MaxVfCalls
    /\ \E rule \in VfRules \cup ExactMacQueueRules :
         Finish(bnxt_flow_validate(Cur, rule, "none"), "none", "validate", NULL,
                rule, FALSE, FALSE)
    /\ UNCHANGED <<lock, pc>>

VfDestroy ==
    /\ ~crashed
    /\ calls < MaxVfCalls
    /\ \E fl \in flows :
         Finish(bnxt_flow_destroy(Cur, fl, "none"), "none", "destroy", fl, NoRule,
                FALSE, FALSE)
    /\ UNCHANGED <<lock, pc>>

NextVf == VfCreate \/ VfValidate \/ VfDestroy

SpecVf == InitVf /\ [][NextVf]_vars

\* C20: on a VF, validate and create reject a rule that redirects the tunnel to
\* a VF unless the port is trusted and the action's VF id is 0; on a VF that is
\* not trusted a create installs no filter, issues no tunnel redirect,
\* provisions no context and adds no Flow.
C20_UntrustedVfRejected ==
    [][ /\ (/\ last'.op \in {"create", "validate"}
            /\ last'.rule \in VfRules
            /\ func # "pf"
            /\ ~(func = "trusted_vf" /\ last'.rule.vf = 0))
              => /\ last'.ret = "EINVAL"
                 /\ last'.handle = NULL
        /\ (last'.op = "create" /\ func = "vf")
              => /\ last'.handle = NULL
                 /\ DriverData' = DriverData
      ]_vars

\* On a VF that is not trusted a create of a tunnel redirect rule was rejected.
C20_Witness ==
    /\ func = "vf"
    /\ last.op = "create"
    /\ last.rule \in VfRules
    /\ last.ret = "EINVAL"
    /\ flows = {}

\* ------------------------------------------------- tunnel redirect teardown
\* A tunnel redirect rule and rules that steer to a queue are created without
\* firmware failures, another function of the adapter may take over the redirect,
\* and destroy and flush run with any failing firmware command.
TunRules == {r \in TunnelRules : ~r.extra} \cup ExactMacQueueRules

TunCreate ==
    /\ ~crashed
    /\ calls < MaxTunCalls
    /\ Cardinality(flows) < MaxFlows
    /\ \E rule \in TunRules :
         FinishCreate(bnxt_flow_create(Cur, rule, "none"), "none", rule)
    /\ UNCHANGED <<lock, pc>>

TunDestroy ==
    /\ ~crashed
    /\ calls < MaxTunCalls
    /\ \E fl \in flows, fail \in FailPoints :
         Finish(bnxt_flow_destroy(Cur, fl, fail), fail, "destroy", fl, NoRule,
                FALSE, FALSE)
    /\ UNCHANGED <<lock, pc>>

TunFlush == ~crashed /\ calls < MaxTunCalls /\ FlushBody /\ UNCHANGED <<lock, pc>>

NextTun == TunCreate \/ TunnelTaken \/ TunDestroy \/ TunFlush

SpecTun == Init /\ [][NextTun]_vars

\* The live Flows of tunnel redirect rules.
TunnelFlows == {fl \in flows : filt[flow[fl].filter].filter_type = "TUNNEL"}

\* Flow fl is gone after the step: it is no Flow any more and in no flow list.
GoneAfter(fl) ==
    /\ fl \notin flows'
    /\ \A v \in Vnics : fl \notin SeqToSet(vnic'[v].flow_list)

\* C21: destroy and flush of a tunnel redirect Flow free the hardware redirect
\* only when it is active and owned by this function; when another function owns
\* it, or none is active, the redirect is left as it is, and with the query and
\* owner commands answering the Flow is removed and the call returns success.
C21_TunnelTeardown ==
    [][ /\ \A fl \in TunnelFlows, fail \in FailPoints :
             DestroyOf(fl, fail)
                => /\ tun' = IF tun = "self" /\ last'.ret = "OK" THEN "none" ELSE tun
                   /\ (tun # "self" /\ ~UninstallFails(fl, fail))
                         => (last'.ret = "OK" /\ GoneAfter(fl))
                   /\ (tun = "self" /\ fail = "none")
                         => (last'.ret = "OK" /\ GoneAfter(fl))
        /\ \A fail \in FlushFails, uaf \in UafReads :
             FlushOf(fail, uaf)
                => \A k \in 1 .. Len(FlushVisits(0, uaf)) :
                      FlushVisits(0, uaf)[k] \in TunnelFlows
                         => /\ tun # "self" => tun' = tun
                            /\ tun' \in {tun, "none"}
                            /\ (\A j \in 1 .. k :
                                   ~UninstallFails(FlushVisits(0, uaf)[j], fail))
                                  => /\ GoneAfter(FlushVisits(0, uaf)[k])
                                     /\ tun = "self" => tun' = "none"
                            /\ (\A j \in 1 .. Len(FlushVisits(0, uaf)) :
                                   ~UninstallFails(FlushVisits(0, uaf)[j], fail))
                                  => last'.ret = "OK"
      ]_vars

\* A destroy removed the tunnel Flow whose redirect another function owns while
\* the firmware would have failed a free command, and the redirect is still the
\* other function's.
C21_Witness ==
    /\ last.op = "destroy"
    /\ last.ret = "OK"
    /\ tun = "other"
    /\ faults = 1
    /\ TunnelFlows = {}
    /\ flows # {}

\* ------------------------------------------------- the field extractor alone
\* A pattern of up to MaxItems items is handed to the field extractor of the
\* started port.
InitParse ==
    /\ InitDriver("pf", "none")
    /\ items \in ItemPatterns
    /\ parsed = NotParsed

\* bnxt_validate_and_parse_flow calls bnxt_validate_and_parse_flow_type.
ParsePattern ==
    /\ parsed.rc = "none"
    /\ parsed' = parse_flow_type_items(items)
    /\ UNCHANGED <<filt, freeF, vnic, rxq, flow, flows, hwL2, hwFlt, tun, func,
                   calls, faults, crashed, lock, pc, last, items, rss>>

NextParse == ParsePattern

SpecParse == InitParse /\ [][NextParse]_vars

\* The extractor has answered for the pattern.
ParseDone == parsed.rc # "none"

\* The positions of the pattern's items of the given types.
ItemsOf(types) == {k \in 1 .. Len(items) : items[k].type \in types}

\* A mask that is all-zero or all-ones.
FullOrZero(m) == m = 0 \/ m = AllOnes

\* C22 as stated: in every accepted pattern each mask on a MAC address, an IP
\* address or a port is all-zero or all-ones.
C22_FullMasksOnly ==
    parsed.rc = "OK"
       => \A k \in ItemsOf({"ETH", "IPV4", "IPV6", "TCP", "UDP"}) :
             FullOrZero(items[k].dst_mask) /\ FullOrZero(items[k].src_mask)

\* C22, amended: in every accepted pattern each mask on a MAC address and on the
\* ethertype is all-zero or all-ones and the IP, TCP and UDP header fields other
\* than the addresses and the ports carry no mask; an IP address or port mask of
\* any value does not reject the item and is what the descriptor holds.
C22_MacMasksFullOnly ==
    /\ parsed.rc = "OK"
          => /\ \A k \in ItemsOf({"ETH"}) :
                   /\ FullOrZero(items[k].dst_mask)
                   /\ FullOrZero(items[k].src_mask)
                   /\ FullOrZero(items[k].type_mask)
             /\ \A k \in ItemsOf({"IPV4", "IPV6", "TCP", "UDP"}) :
                   items[k].hdr_mask = 0
             /\ \A k \in ItemsOf({"IPV4", "IPV6"}) :
                   ItemsOf({"IPV4", "IPV6"}) = {k}
                      => /\ parsed.dst_ipaddr_mask = items[k].dst_mask
                         /\ parsed.src_ipaddr_mask = items[k].src_mask
             /\ \A k \in ItemsOf({"TCP", "UDP"}) :
                   ItemsOf({"TCP", "UDP"}) = {k}
                      => /\ parsed.dst_port_mask = items[k].dst_mask
                         /\ parsed.src_port_mask = items[k].src_mask
    /\ (/\ ParseDone
        /\ Len(items) = 1
        /\ items[1].type \in {"IPV4", "IPV6", "TCP", "UDP"}
        /\ items[1].hdr_mask = 0)
          => parsed.rc = "OK"

\* A pattern with a partially masked IPv4 destination next to an Ethernet item
\* was accepted, and the descriptor holds that mask.
C22_Witness ==
    /\ parsed.rc = "OK"
    /\ ItemsOf({"ETH"}) # {}
    /\ \E k \in ItemsOf({"IPV4"}) :
          /\ ~FullOrZero(items[k].dst_mask)
          /\ parsed.dst_ipaddr_mask = items[k].dst_mask

\* C23: the filter kind of an accepted pattern is exact-match exactly when the
\* pattern holds an Ethernet, Any or VLAN item and no IPv4, IPv6, TCP or UDP
\* item, in whatever order the items come, and Tuple otherwise; a pattern with a
\* VLAN item and an L3 / L4 item is rejected, and no accepted pattern with a VLAN
\* item is of Tuple kind.
C23_KindByContents ==
    ParseDone
       => /\ parsed.rc = "OK"
                => (parsed.filter_type = "EM")
                      = (/\ ItemsOf({"ETH", "ANY", "VLAN"}) # {}
                         /\ ItemsOf({"IPV4", "IPV6", "TCP", "UDP"}) = {})
          /\ (/\ ItemsOf({"VLAN"}) # {}
              /\ ItemsOf({"IPV4", "IPV6", "TCP", "UDP"}) # {})
                => parsed.rc # "OK"
          /\ (parsed.rc = "OK" /\ ItemsOf({"VLAN"}) # {})
                => parsed.filter_type # "NTUPLE"

\* C24: a pattern that is one VXLAN, NVGRE or GRE item with neither spec nor
\* mask is accepted and the descriptor's tunnel type is that tunnel's; a pattern
\* with a tunnel item that has exactly one of spec and mask is rejected.
C24_GenericTunnelAccepted ==
    ParseDone
       => /\ (/\ Len(items) = 1
              /\ items[1].type \in {"VXLAN", "NVGRE", "GRE"}
              /\ ~items[1].spec
              /\ ~items[1].mask)
                => /\ parsed.rc = "OK"
                   /\ parsed.tunnel_type
                         = (IF items[1].type = "GRE" THEN "IPGRE" ELSE items[1].type)
          /\ (\E k \in ItemsOf({"VXLAN", "NVGRE", "GRE"}) :
                 items[k].spec # items[k].mask)
                => parsed.rc # "OK"

\* ------------------------------------------- threads that wait for the lock
\* pc of a thread that has called a handler and is inside
\* bnxt_acquire_flow_lock, waiting for the mutex.
WaitOf == [validate |-> "wait_validate", create |-> "wait_create",
           destroy |-> "wait_destroy", flush |-> "wait_flush"]
WaitPcs == {WaitOf[op] : op \in Ops}

\* A thread calls one of the four handlers of the started port.
LockCall(t) ==
    /\ ~crashed
    /\ pc[t] = "idle"
    /\ calls + Cardinality({u \in Threads : pc[u] # "idle"}) < MaxLockCalls
    /\ \E op \in Ops : pc' = [pc EXCEPT ![t] = WaitOf[op]]
    /\ UNCHANGED <<filt, freeF, vnic, rxq, flow, flows, hwL2, hwFlt, tun, func,
                   calls, faults, crashed, lock, last, items, parsed, rss>>

\* pthread_mutex_lock returns in the waiting thread.
LockAcquire(t) ==
    /\ ~crashed
    /\ pc[t] \in WaitPcs
    /\ bnxt_acquire_flow_lock(t)
    /\ \E op \in Ops : pc[t] = WaitOf[op] /\ pc' = [pc EXCEPT ![t] = op]
    /\ UNCHANGED <<filt, freeF, vnic, rxq, flow, flows, hwL2, hwFlt, tun, func,
                   calls, faults, crashed, last, items, parsed, rss>>

\* The holder of the lock runs its handler to the return.
LockRun(t) == RunValidate(t) \/ RunCreate(t) \/ RunDestroy(t) \/ RunFlush(t)

NextLock == \E t \in Threads : LockCall(t) \/ LockAcquire(t) \/ LockRun(t)

\* The firmware answers every command, so a thread inside a handler gets to the
\* handler's return (or faults), and the mutex is handed to a thread that waits
\* for it.
SpecLock ==
    /\ Init
    /\ [][NextLock]_vars
    /\ \A t \in Threads :
          /\ WF_vars(LockAcquire(t))
          /\ (pc[t] \in Ops) ~> (pc[t] = "idle" \/ crashed)

C26_EmptyContextTornDown ==
    \A v \in Vnics \ {0} :
       vnic[v].flow_list = <<>>
          => /\ vnic[v].fw_vnic_id = INVALID_VNIC_ID
             /\ vnic[v].rx_queue_cnt = 0

\* ------------------------------------------- teardown under an installed Flow
\* Installed, read in the state a step leads to.
InstalledNext(f) ==
    IF filt'[f].filter_type = "TUNNEL" THEN tun' = "self"
    ELSE /\ filt'[f].fw_l2_filter_id # INVALID_FILTER_ID
         /\ \E e \in hwL2' : e.id = filt'[f].fw_l2_filter_id
         /\ filt'[f].filter_type \in {"EM", "NTUPLE"}
               => /\ filt'[f].fw_flt_id # INVALID_FILTER_ID
                  /\ \E e \in hwFlt' : e.id = filt'[f].fw_flt_id

\* C27: no validate and no destroy tears down a context (takes its firmware id
\* away) while, after the call, a live Flow's descriptor is installed in the
\* hardware with that context's firmware id as its destination.
C27_NoTeardownUnderFlow ==
    [][ last'.op \in {"validate", "destroy"}
           => \A v \in Vnics :
                 (/\ vnic[v].fw_vnic_id # INVALID_VNIC_ID
                  /\ vnic'[v].fw_vnic_id = INVALID_VNIC_ID)
                    => \A fl \in flows' :
                          ~ /\ InstalledNext(flow'[fl].filter)
                            /\ filt'[flow'[fl].filter].dst_id = vnic[v].fw_vnic_id
      ]_vars

\* ------------------------------------------------------ one L2 filter per key
\* C28: after any creates and destroys, no two L2 filters installed in the
\* hardware have the same key, and a successful create whose L2 key is that of
\* an installed L2 filter some live Flow still uses installs no L2 filter.
C28_OneL2FilterPerKey ==
    /\ [](\A e1 \in hwL2, e2 \in hwL2 : e1.mac = e2.mac => e1 = e2)
    /\ [][ (/\ last'.op = "create"
            /\ last'.ret = "OK"
            /\ \E e \in hwL2 :
                  /\ e.mac = last'.rule.pat.mac
                  /\ \E fl \in flows : filt[flow[fl].filter].fw_l2_filter_id = e.id)
              => hwL2' = hwL2
         ]_vars

\* ------------------------------------------------ validate and the L2 filters
\* C29: validate leaves the reference count of every L2 filter in use and the
\* set of L2 filters installed in the hardware as they were, whatever the kind
\* of the rule's filter and whatever validate returns.
C29_ValidateKeepsL2 ==
    [][ last'.op = "validate"
           => /\ \A i \in FilterIds \ freeF : filt'[i].l2_ref_cnt = filt[i].l2_ref_cnt
              /\ hwL2' = hwL2
      ]_vars

\* ------------------------------------------------- where the descriptors are
\* The Flows that own descriptor i, and the places of the filter lists that
\* record it.  Descriptor 1 is the port's own filter, never taken from the pool.
OwnersOf(i) == {fl \in flows : flow[fl].filter = i}
ListedAt(i) == {p \in Vnics \X (1 .. NumFilters) :
                  p[2] <= Len(vnic[p[1]].filter) /\ vnic[p[1]].filter[p[2]] = i}

\* C30: after any validates, creates, destroys and flushes, every descriptor
\* but the port's is in exactly one place: in the free pool, owned by no Flow
\* and in no filter list, or out of the pool, owned by exactly one Flow and
\* recorded exactly once in the filter lists.
C30_DescriptorInOnePlace ==
    ~crashed =>
       \A i \in FilterIds \ {1} :
          IF i \in freeF
          THEN OwnersOf(i) = {} /\ ListedAt(i) = {}
          ELSE Cardinality(OwnersOf(i)) = 1 /\ Cardinality(ListedAt(i)) = 1

\* ------------------------------------------------------- no duplicate Flows
\* C31: after any creates, destroys and flushes, no two live Flows own
\* descriptors that are equal in every match field (kind, flags, pattern, L2
\* address), whatever their destinations.
C31_NoDuplicateFlows ==
    ~crashed =>
       \A f1 \in flows, f2 \in flows :
          (/\ f1 # f2
           /\ flow[f1].filter # NULL
           /\ flow[f2].filter # NULL)
             => ~SameMatchFields(filt[flow[f1].filter], filt[flow[f2].filter])

\* ------------------------------------------------------ queues and contexts
\* Context v is provisioned and counts a queue; the non-default contexts that
\* serve queue q (q lies in their queue range).
InUse(v) == vnic[v].fw_vnic_id # INVALID_VNIC_ID /\ vnic[v].rx_queue_cnt > 0
ServedBy(q) ==
    {v \in Vnics \ {0} :
       InUse(v) /\ vnic[v].start_grp_id <= q /\ q <= vnic[v].end_grp_id}

\* C32: every queue is served by at most one non-default context, every
\* context a QUEUE action provisioned serves exactly one queue, and a create
\* of a QUEUE rule is rejected when its queue is out of range, when another
\* non-default context (one selected by another group id included) serves the
\* queue, or when the rule's context serves another queue.
C32_QueueBoundOnce ==
    /\ [](~crashed =>
            /\ \A q \in Queues : Cardinality(ServedBy(q)) <= 1
            /\ \A v \in Vnics \ {0} :
                  InUse(v) => /\ vnic[v].rx_queue_cnt = 1
                              /\ vnic[v].start_grp_id = vnic[v].end_grp_id)
    /\ [][ (/\ last'.op = "create"
            /\ last'.rule.act = "QUEUE"
            /\ ~crashed'
            /\ LET q == last'.rule.q
                   v == IF last'.rule.group # 0 THEN last'.rule.group ELSE q
               IN  \/ q >= rx_nr_rings
                   \/ (q < rx_nr_rings /\ ServedBy(q) \ {v} # {})
                   \/ (InUse(v) /\ vnic[v].start_grp_id # q))
              => last'.ret \notin {"OK", "EXDEV"}
         ]_vars

\* --------------------------------------------------- flush against destroy
\* The driver's data after destroying the Flows of fls one by one, in order,
\* with no firmware command failing.
RECURSIVE destroy_each(_, _)
destroy_each(s, fls) ==
    IF fls = <<>> THEN s
    ELSE destroy_each(bnxt_flow_destroy(s, Head(fls), "none").s, Tail(fls))

\* C33: a flush during which no firmware command fails leaves the hardware
\* filter tables, the tunnel redirect and the reference count of every L2
\* filter still in use as destroying, one by one, the Flows it removed would
\* leave them, whichever context holds each Flow.
C33_FlushAsDestroyEach ==
    [][ \A uaf \in UafReads :
           (FlushOf("none", uaf) /\ ~crashed')
              => LET d == destroy_each(Cur, FlushVisits(0, uaf))
                 IN  ~d.crashed
                        => /\ hwL2' = d.hwL2
                           /\ hwFlt' = d.hwFlt
                           /\ tun' = d.tun
                           /\ \A i \in FilterIds \ (freeF' \cup d.freeF) :
                                 filt'[i].l2_ref_cnt = d.filt[i].l2_ref_cnt
      ]_vars

\* ------------------------------------- the RSS case, its table loop by steps
\* rss->queue[] of the RSS actions compiled here: up to MaxTableQueues queues,
\* none included, each in range and not a ring of vnic_info[0].
TableQueues == UNION {[1 .. n -> UsableQueues] : n \in 0 .. MaxTableQueues}

\* The RSS case on a fresh VNIC v from the loop over rss->queue[] to the loop
\* that copies the ring group ids (state b after the first loop): a and z are
\* what the reads of rss->queue[0] and rss->queue[queue_num - 1] yield.
rss_grp_filled(b, v, qs, a, z) ==
    LET p == bnxt_vnic_prep([b.s EXCEPT !.vnic[v].start_grp_id = a,
                                         !.vnic[v].end_grp_id = z],
                            v, "none")
    IN  [p.s EXCEPT !.vnic[v].fw_grp_ids =
                       [i \in 1 .. p.s.vnic[v].rx_queue_cnt |-> FwGrpId(qs[i])]]

\* The RSS case is entered for group 1 and runs up to the loop over
\* vnic->rss_table.  With no queue in the action, rss->queue[0] and
\* rss->queue[queue_num - 1] are read outside the array: any value, or a fault.
RssEnter ==
    /\ ~crashed
    /\ rss.pos = "idle"
    /\ vnic[1].rx_queue_cnt = 0
    /\ \E qs \in TableQueues :
         \E a \in (IF qs = <<>> THEN Queues ELSE {qs[1]}),
            z \in (IF qs = <<>> THEN Queues ELSE {qs[Len(qs)]}) :
            \/ /\ vnic' = rss_grp_filled(rss_bind(Cur, 1, qs, 1, NullQ), 1, qs, a, z).vnic
               /\ rxq' = rss_grp_filled(rss_bind(Cur, 1, qs, 1, NullQ), 1, qs, a, z).rxq
               /\ rss' = [NoRss EXCEPT !.pos = "outer", !.v = 1]
               /\ UNCHANGED crashed
            \/ /\ qs = <<>>
               /\ crashed' = TRUE
               /\ UNCHANGED <<vnic, rxq, rss>>
    /\ UNCHANGED <<filt, freeF, flow, flows, hwL2, hwFlt, tun, func, calls, faults,
                   lock, pc, last, items, parsed>>

\* for (rss_idx = 0; rss_idx < HW_HASH_INDEX_SIZE; ): the test of the outer
\* loop, which has no increment of its own.
RssOuter ==
    /\ ~crashed
    /\ rss.pos = "outer"
    /\ rss' = IF rss.rss_idx < HW_HASH_INDEX_SIZE
              THEN [rss EXCEPT !.pos = "inner", !.i = 0]
              ELSE [rss EXCEPT !.pos = "done"]
    /\ UNCHANGED <<filt, freeF, vnic, rxq, flow, flows, hwL2, hwFlt, tun, func,
                   calls, faults, crashed, lock, pc, last, items, parsed>>

\* for (i = 0; i < vnic->rx_queue_cnt; i++)
\*     vnic->rss_table[rss_idx++] = vnic->fw_grp_ids[i];
\* one test of the inner loop and, when it holds, one store.  A store at
\* HW_HASH_INDEX_SIZE or beyond lands past the table, or faults.
RssInner ==
    /\ ~crashed
    /\ rss.pos = "inner"
    /\ IF rss.i >= vnic[rss.v].rx_queue_cnt
       THEN rss' = [rss EXCEPT !.pos = "outer"] /\ UNCHANGED crashed
       ELSE \/ /\ rss' = [rss EXCEPT !.rss_table[rss.rss_idx] = GrpAt(Cur, rss.v, rss.i + 1),
                                     !.rss_idx = @ + 1,
                                     !.i = @ + 1]
               /\ UNCHANGED crashed
            \/ /\ rss.rss_idx >= HW_HASH_INDEX_SIZE
               /\ crashed' = TRUE
               /\ UNCHANGED rss
    /\ UNCHANGED <<filt, freeF, vnic, rxq, flow, flows, hwL2, hwFlt, tun, func,
                   calls, faults, lock, pc, last, items, parsed>>

NextRssTable == RssEnter \/ RssOuter \/ RssInner

\* The thread inside the handler keeps running: a loop test or a store that can
\* be executed is executed.
SpecRssTable ==
    /\ Init
    /\ [][NextRssTable]_vars
    /\ WF_vars(RssOuter)
    /\ WF_vars(RssInner)

\* C34: the RSS case on a fresh context, once it has reached the loop over the
\* indirection table, finishes that loop (or the process faults), for every
\* number of queues in the action, none included.
C34_RssTableTerminates ==
    (rss.pos \in {"outer", "inner"}) ~> (rss.pos = "done" \/ crashed)

\* C35: when the loop over the indirection table has finished for a context
\* with n >= 1 queues, entry k of the table holds the ring group id of the
\* context's queue k mod n for every k below HW_HASH_INDEX_SIZE, and nothing was
\* stored at HW_HASH_INDEX_SIZE or beyond.
C35_RssTableRoundRobin ==
    (rss.pos = "done" /\ vnic[1].rx_queue_cnt >= 1)
       => /\ \A k \in 0 .. (HW_HASH_INDEX_SIZE - 1) :
                rss.rss_table[k] = GrpAt(Cur, 1, (k % vnic[1].rx_queue_cnt) + 1)
          /\ \A k \in HW_HASH_INDEX_SIZE .. (HW_HASH_INDEX_SIZE + MaxTableQueues - 1) :
                rss.rss_table[k] = INVALID_HW_RING_ID

\* ------------------------------------------- group ids and the VNIC table
\* QUEUE and RSS rules whose group id ranges over the table of VNICs and one
\* past it (attr->group is a uint32_t the application chooses); the queues are
\* in range and free to use.
TableRules ==
    [pat : [kind : {"eth"}, mac : 1 .. MaxMac, ip : {0}], act : {"QUEUE"},
     q : UsableQueues, group : 0 .. max_vnics, extra : {FALSE},
     queues : {NoQueues}, vf : {0}]
    \cup [pat : [kind : {"eth"}, mac : 1 .. MaxMac, ip : {0}], act : {"RSS"},
          q : {0}, group : 1 .. max_vnics, extra : {FALSE},
          queues : [1 .. 1 -> UsableQueues], vf : {0}]

\* vnic_id of the QUEUE and RSS cases: the group id, or the queue index when
\* the group id is 0.
RuleIndex(rule) == IF rule.group # 0 THEN rule.group ELSE rule.q

GroupCreate ==
    /\ ~crashed
    /\ calls < MaxGroupCalls
    /\ Cardinality(flows) < MaxFlows
    /\ \E rule \in TableRules, read \in PastEndReads :
         FinishCreate(bnxt_flow_create(Cur, rule, read), "none", rule)
    /\ UNCHANGED <<lock, pc>>

GroupValidate ==
    /\ ~crashed
    /\ calls < MaxGroupCalls
    /\ \E rule \in TableRules, read \in PastEndReads :
         Finish(bnxt_flow_validate(Cur, rule, read), "none", "validate", NULL,
                NoRule, FALSE, FALSE)
    /\ UNCHANGED <<lock, pc>>

NextGroup == GroupCreate \/ GroupValidate

SpecGroup == Init /\ [][NextGroup]_vars

\* This step is a create, or a validate, of the rule while the memory past the
\* table reads as read.
GroupCallOf(rule, read) ==
    \/ /\ last'.op = "create"
       /\ FinishCreate(bnxt_flow_create(Cur, rule, read), "none", rule)
    \/ /\ last'.op = "validate"
       /\ Finish(bnxt_flow_validate(Cur, rule, read), "none", "validate", NULL,
                 NoRule, FALSE, FALSE)

\* C36: a create or a validate of a QUEUE or RSS rule whose index into the
\* table of VNICs is max_vnics or more is rejected, touches nothing of the
\* driver's data and does not fault on memory past the table.
C36_IndexInsideTable ==
    [][ \A rule \in TableRules, read \in PastEndReads :
           (RuleIndex(rule) >= max_vnics /\ GroupCallOf(rule, read))
              => /\ last'.ret = "EINVAL"
                 /\ ~crashed'
                 /\ DriverData' = DriverData
      ]_vars

\* ------------------------------------------- create and a foreign redirect
\* C37: a create leaves a VXLAN tunnel redirect that another function owns as
\* it is: it is neither freed nor replaced by a redirect of this function.
C37_CreateKeepsForeignTunnel ==
    [][ (last'.op = "create" /\ calls' = calls + 1 /\ tun = "other")
           => tun' = "other"
      ]_vars

====
